---- MODULE Spec2Model ----
(***************************************************************************)
(* A model of the transformer compiler of quicktype's Python backend       *)
(* (src/quicktype-core/language/Python.ts): the value-or-lambda algebra    *)
(* (compose, makeLambda, makeValue), the recursive compilation of types    *)
(* and transformer nodes into Python expressions, and the run-time         *)
(* behaviour of the emitted from_union helper.                             *)
(*                                                                         *)
(* Generated Python source is modelled as a syntax tree: every piece of    *)
(* source is a node [op, args].  Concatenating a piece of source with a    *)
(* following "(...)" or ".m()" is modelled by what Python's grammar makes  *)
(* of the text: a call glued to an unparenthesised lambda belongs to the   *)
(* lambda's body.  Norm gives the meaning of an expression by beta         *)
(* reduction, so that two expressions can be compared by what they         *)
(* compute rather than by how they are spelled.                            *)
(***************************************************************************)
EXTENDS Integers, Sequences, FiniteSets, TLC

VARIABLES
    vol,        \* the value-or-lambda the next compilation step starts from
    used,       \* JSONPythonRenderer._deserializerFunctions
    imports,    \* PythonRenderer.imports, as a set of <<module, name>>
    last,       \* the last operation: its name, input, argument and result
    pc,         \* "ready" before the operation, "done" after it
    ustack,     \* from_union at run time: the stack of active calls
    ulog,       \* from_union at run time: the branches called so far, in order
    uret,       \* from_union at run time: the outcome of the outermost call
    ufs,        \* from_union at run time: the fs of the outermost call
    features,   \* pyOptions.features: [version, typeHints, dataClasses]
    debug,      \* the emitted code at run time: Python's __debug__ (FALSE under python -O)
    run,        \* the emitted code at run time: the type, the input and the results
    scope,      \* one namespace: its role, the names assigned so far, the last label
    render      \* emitSourceStructure: the gathered sections and the output

vars == <<vol, used, imports, last, pc, ustack, ulog, uret, ufs, features, debug, run, scope, render>>

----------------------------------------------------------------------------
(* Source text as syntax trees *)

Node(op, args) == [op |-> op, args |-> args]

Atom(s) == Node(s, <<>>)

Undefined == Atom("undefined")

X == Atom("x")

Lam(body) == Node("lambda", <<body>>)

Paren(e) == Node("()", <<e>>)

ListOf(es) == Node("[]", es)

Panic(msg) == Node("panic", <<Atom(msg)>>)

IsPanic(e) == e.op = "panic"

RECURSIVE Juxt(_, _)
\* the text  fn(args) : glued to a bare lambda it extends the lambda's body
Juxt(fn, args) ==
    IF fn.op = "lambda"
    THEN Lam(Juxt(fn.args[1], args))
    ELSE Node("call", <<fn>> \o args)

RECURSIVE Postfix(_, _)
\* the text  v.m() : glued to a bare lambda it extends the lambda's body
Postfix(v, m) ==
    IF v.op = "lambda"
    THEN Lam(Postfix(v.args[1], m))
    ELSE Node(m, <<v>>)

singleWord(source) == [source |-> source, needsParens |-> FALSE]

multiWord(source) == [source |-> source, needsParens |-> TRUE]

parenIfNeeded(mw) == IF mw.needsParens THEN Paren(mw.source) ELSE mw.source

----------------------------------------------------------------------------
(* The meaning of an expression *)

RECURSIVE Subst(_, _)
\* e with the free occurrences of x replaced by a (an inner lambda rebinds x)
Subst(e, a) ==
    IF e = X THEN a
    ELSE IF e.op = "lambda" THEN e
    ELSE Node(e.op, [i \in 1..Len(e.args) |-> Subst(e.args[i], a)])

RECURSIVE Norm(_)
Norm(e) ==
    IF e.op = "()" THEN Norm(e.args[1])
    ELSE IF e.op = "call"
    THEN LET f == Norm(e.args[1])
             as == [i \in 1..(Len(e.args) - 1) |-> Norm(e.args[i + 1])]
         IN  IF f.op = "lambda" /\ Len(as) = 1
             THEN Norm(Subst(f.args[1], as[1]))
             ELSE Node("call", <<f>> \o as)
    ELSE Node(e.op, [i \in 1..Len(e.args) |-> Norm(e.args[i])])

----------------------------------------------------------------------------
(* A step given as a function on expressions: v => [fn, "(", pre.., v, ")"] *)
(* or v => [v, ".m()"]                                                      *)

CallStep(fn, pre) == [kind |-> "call", fn |-> fn, pre |-> pre]

PostfixStep(m) == [kind |-> "postfix", fn |-> Atom(m), pre |-> <<>>]

IsFunction(f) == "kind" \in DOMAIN f

StepApply(f, v) ==
    IF f.kind = "postfix" THEN Postfix(v, f.fn.op)
    ELSE Node("call", <<f.fn>> \o f.pre \o <<v>>)

----------------------------------------------------------------------------
(* ValueOrLambda *)

VOL(value, lambda) == [value |-> value, lambda |-> lambda]

identity == VOL(Undefined, Undefined)

PanicVOL(msg) == VOL(Panic(msg), Undefined)

makeValue(v) ==
    IF v.value = Undefined
    THEN Panic("Cannot make value from lambda without value")
    ELSE IF v.lambda # Undefined
    THEN Juxt(parenIfNeeded(v.lambda), <<v.value>>)
    ELSE v.value

makeLambda(v) ==
    IF v.lambda # Undefined
    THEN IF v.value = Undefined
         THEN v.lambda
         ELSE multiWord(Lam(Juxt(parenIfNeeded(v.lambda), <<X>>)))
    ELSE IF v.value # Undefined
    THEN multiWord(Lam(v.value))
    ELSE multiWord(Lam(X))

\* compose with the step applied to the bare value of the input, a pending
\* lambda of the input left out
composeBareValue(input, f) ==
    IF IsFunction(f)
    THEN IF input.value # Undefined
         THEN VOL(StepApply(f, input.value), Undefined)
         ELSE IF input.lambda # Undefined
         THEN VOL(Undefined,
                  multiWord(Lam(StepApply(f, Juxt(parenIfNeeded(input.lambda), <<X>>)))))
         ELSE VOL(Undefined, multiWord(Lam(StepApply(f, X))))
    ELSE IF f.value # Undefined
    THEN PanicVOL("Cannot compose into a value")
    ELSE IF f.lambda = Undefined
    THEN input
    ELSE IF input.value = Undefined
    THEN IF input.lambda = Undefined
         THEN f
         ELSE VOL(Undefined,
                  multiWord(Lam(Juxt(parenIfNeeded(f.lambda),
                                     <<Juxt(parenIfNeeded(input.lambda), <<X>>)>>))))
    ELSE VOL(makeValue(input), f.lambda)

\* compose with the two lambdas glued together without parentheses
composeNoParens(input, f) ==
    IF IsFunction(f)
    THEN IF input.value # Undefined
         THEN VOL(StepApply(f, makeValue(input)), Undefined)
         ELSE IF input.lambda # Undefined
         THEN VOL(Undefined,
                  multiWord(Lam(StepApply(f, Juxt(parenIfNeeded(input.lambda), <<X>>)))))
         ELSE VOL(Undefined, multiWord(Lam(StepApply(f, X))))
    ELSE IF f.value # Undefined
    THEN PanicVOL("Cannot compose into a value")
    ELSE IF f.lambda = Undefined
    THEN input
    ELSE IF input.value = Undefined
    THEN IF input.lambda = Undefined
         THEN f
         ELSE VOL(Undefined,
                  multiWord(Lam(Juxt(f.lambda.source,
                                     <<Juxt(input.lambda.source, <<X>>)>>))))
    ELSE VOL(makeValue(input), f.lambda)

compose(input, f) ==
    IF IsFunction(f)
    THEN IF input.value # Undefined
         THEN VOL(StepApply(f, makeValue(input)), Undefined)
         ELSE IF input.lambda # Undefined
         THEN VOL(Undefined,
                  multiWord(Lam(StepApply(f, Juxt(parenIfNeeded(input.lambda), <<X>>)))))
         ELSE VOL(Undefined, multiWord(Lam(StepApply(f, X))))
    ELSE IF f.value # Undefined
    THEN PanicVOL("Cannot compose into a value")
    ELSE IF f.lambda = Undefined
    THEN input
    ELSE IF input.value = Undefined
    THEN IF input.lambda = Undefined
         THEN f
         ELSE VOL(Undefined,
                  multiWord(Lam(Juxt(parenIfNeeded(f.lambda),
                                     <<Juxt(parenIfNeeded(input.lambda), <<X>>)>>))))
    ELSE VOL(makeValue(input), f.lambda)

----------------------------------------------------------------------------
(* Types and transformer nodes of the type graph (the compiler's input) *)

Type(kind, name, items, xf) == [kind |-> kind, name |-> name, items |-> items, xf |-> xf]

Prim(kind) == Type(kind, "", <<>>, Undefined)

Named(kind, name) == Type(kind, name, <<>>, Undefined)

TransformedStringKinds == {"date-time", "integer-string", "uuid"}

\* a transformer node; consumer, transformer and memberType are Undefined and
\* transformers is empty where the node's class has no such field
Xfer(kind, sourceType, consumer, transformers, memberType, inner) ==
    [kind |-> kind, sourceType |-> sourceType, consumer |-> consumer,
     transformers |-> transformers, memberType |-> memberType, transformer |-> inner]

Transformation(xfer, targetType, rxfer, rtargetType) ==
    [transformer |-> xfer, targetType |-> targetType,
     reverse |-> [transformer |-> rxfer, targetType |-> rtargetType]]

transformationForType(t) == t.xf

nameForNamedType(t) == Atom(t.name)

----------------------------------------------------------------------------
(* The renderer's accumulating state, threaded through the compilation:    *)
(* c = [used, imports]; a compilation returns [vol, used, imports, panic]   *)

Ctx(r) == [used |-> r.used, imports |-> r.imports]

Ret(c, v) == [vol |-> v, used |-> c.used, imports |-> c.imports, panic |-> ""]

Abort(c, msg) == [vol |-> PanicVOL(msg), used |-> c.used, imports |-> c.imports, panic |-> msg]

SetAdd(seq, e) == IF \E i \in 1..Len(seq) : seq[i] = e THEN seq ELSE Append(seq, e)

withImport(c, module, name) ==
    IF features.typeHints \/ module # "typing"
    THEN [used |-> c.used, imports |-> c.imports \cup {<<module, name>>}]
    ELSE c

\* A ConverterFunction is modelled by its parts between dashes:
\* "from-float" is <<"from", "float">>
CFNone == <<"none">>
CFBool == <<"bool">>
CFInt == <<"int">>
CFFromFloat == <<"from", "float">>
CFToFloat == <<"to", "float">>
CFStr == <<"str">>
CFToEnum == <<"to", "enum">>
CFList == <<"list">>
CFToClass == <<"to", "class">>
CFDict == <<"dict">>
CFUnion == <<"union">>
CFFromDatetime == <<"from", "datetime">>
CFIsType == <<"is", "type">>

ConverterFunction ==
    {CFNone, CFBool, CFInt, CFFromFloat, CFToFloat, CFStr, CFToEnum, CFList,
     CFToClass, CFDict, CFUnion, CFFromDatetime, CFIsType}

\* cf.replace("-", "_") replaces the first dash only
ReplaceFirstDash(cf) ==
    IF Len(cf) = 1 THEN cf[1]
    ELSE LET RECURSIVE rest(_)
             rest(i) == IF i > Len(cf) THEN "" ELSE "-" \o cf[i] \o rest(i + 1)
         IN  cf[1] \o "_" \o cf[2] \o rest(3)

\* the name with from_ before it, whatever the converter
convNamePrefixed(cf) == "from_" \o ReplaceFirstDash(cf)

convName(cf) ==
    LET name == ReplaceFirstDash(cf)
    IN  IF Len(cf) > 1 /\ cf[1] \in {"from", "to", "is"}
        THEN name
        ELSE "from_" \o name

\* conv that returns the name and leaves the set of used converters alone
convUnrecorded(c, cf) == [used |-> c.used, imports |-> c.imports, source |-> Atom(convName(cf))]

conv(c, cf) == [used |-> SetAdd(c.used, cf), imports |-> c.imports, source |-> Atom(convName(cf))]

\* convFn returning the converter itself, not composed with arg
convResultAlone(k, arg) == Ret(Ctx(k), VOL(Undefined, singleWord(k.source)))

\* convFn handing compose the converter as a value
convResultIntoValue(k, arg) == Ret(Ctx(k), compose(arg, VOL(k.source, Undefined)))

convResult(k, arg) == Ret(Ctx(k), compose(arg, VOL(Undefined, singleWord(k.source))))

convFn(c, cf, arg) == convResult(conv(c, cf), arg)

\* typeObject returns [source, used, imports, panic]
typeObject(c, t) ==
    LET ok(c1, s) == [source |-> s, used |-> c1.used, imports |-> c1.imports, panic |-> ""]
        no == [source |-> Undefined, used |-> c.used, imports |-> c.imports,
               panic |-> "No type object for " \o t.kind]
    IN  CASE t.kind = "any" -> no
          [] t.kind = "null" -> ok(c, Atom("type(None)"))
          [] t.kind = "bool" -> ok(c, Atom("bool"))
          [] t.kind = "integer" -> ok(c, Atom("int"))
          [] t.kind = "double" -> ok(c, Atom("float"))
          [] t.kind = "string" -> ok(c, Atom("str"))
          [] t.kind = "array" -> ok(c, Atom("List"))
          [] t.kind = "class" -> ok(c, nameForNamedType(t))
          [] t.kind = "map" -> ok(c, Atom("dict"))
          [] t.kind = "enum" -> ok(c, nameForNamedType(t))
          [] t.kind = "union" -> no
          [] t.kind = "date-time" -> ok(withImport(c, "datetime", "datetime"), Atom("datetime"))
          [] OTHER -> no

\* this.transformer, this.deserializer and this.serializer call each other:
\* recurse(fn, ...) is the call of the method named fn
RECURSIVE recurse(_, _, _, _, _)
RECURSIVE lambdas(_, _, _, _)

NoLambdas(c) == [sources |-> <<>>, used |-> c.used, imports |-> c.imports, panic |-> ""]

ConsLambda(source, rest) ==
    [sources |-> <<source>> \o rest.sources,
     used |-> rest.used, imports |-> rest.imports, panic |-> rest.panic]

\* the lambdas collected in the opposite order
SnocLambda(source, rest) ==
    [sources |-> rest.sources \o <<source>>,
     used |-> rest.used, imports |-> rest.imports, panic |-> rest.panic]

lambdasAfterReversed(r, xs, mode, targetType) ==
    IF r.panic # ""
    THEN [sources |-> <<>>, used |-> r.used, imports |-> r.imports, panic |-> r.panic]
    ELSE SnocLambda(makeLambda(r.vol).source, lambdas(Ctx(r), xs, mode, targetType))

\* r is the compilation of the first element, xs are the elements after it
lambdasAfter(r, xs, mode, targetType) ==
    IF r.panic # ""
    THEN [sources |-> <<>>, used |-> r.used, imports |-> r.imports, panic |-> r.panic]
    ELSE ConsLambda(makeLambda(r.vol).source, lambdas(Ctx(r), xs, mode, targetType))

\* xs.map(x => makeLambda(compile(identity, x)).source), left to right, where
\* compile is transformer, deserializer or serializer according to mode;
\* returns [sources, used, imports, panic]
lambdas(c, xs, mode, targetType) ==
    IF xs = <<>>
    THEN NoLambdas(c)
    ELSE lambdasAfter(recurse(mode, c, identity, Head(xs), targetType), Tail(xs), mode, targetType)

consume(c, consumer, v, targetType) ==
    IF consumer = Undefined
    THEN Ret(c, v)
    ELSE recurse("transformer", c, v, consumer, targetType)

\* the node's own step returned without its consumer
consumeDropped(r, consumer, targetType) == r

\* r is the compilation of the node's own step: the consumer is compiled on it
consumeResult(r, consumer, targetType) ==
    IF r.panic # "" THEN r ELSE consume(Ctx(r), consumer, r.vol, targetType)

\* the value passed on without the check
isTypeUnchecked(fn, o, valueToCheck) ==
    IF o.panic # "" THEN Abort(Ctx(o), o.panic) ELSE Ret(Ctx(o), valueToCheck)

\* compose(valueToCheck, v => [fn, "(", typeObject(t), ", ", v, ")"]) with
\* o the outcome of typeObject(t)
isTypeOf(fn, o, valueToCheck) ==
    IF o.panic # ""
    THEN Abort(Ctx(o), o.panic)
    ELSE Ret(Ctx(o), compose(valueToCheck, CallStep(fn, <<o.source>>)))

isTypeConv(k, t, valueToCheck) == isTypeOf(k.source, typeObject(Ctx(k), t), valueToCheck)

isType(c, t, valueToCheck) == isTypeConv(conv(c, CFIsType), t, valueToCheck)

\* compose(value, v => [k.source, "(", pre, ", ", v, ")"]) after conv returned k
composeConv(k, value, pre) == Ret(Ctx(k), compose(value, CallStep(k.source, pre)))

\* compose(value, v => [conv("union"), "([", ls.sources, "], ", v, ")"])
unionOf(ls, value) ==
    IF ls.panic # ""
    THEN Abort(Ctx(ls), ls.panic)
    ELSE composeConv(conv(Ctx(ls), CFUnion), value, <<ListOf(ls.sources)>>)

\* union instantiation that runs the value through from_union
instantiateUnionChecked(c, inputTransformer) == convFn(c, CFUnion, inputTransformer)

\* xfer instanceof UnionInstantiationTransformer: return inputTransformer
instantiateUnion(c, inputTransformer) == Ret(c, inputTransformer)

\* the overall target type, whatever the consumer
overallTargetType(xfer, targetType) == targetType

immediateTargetType(xfer, targetType) ==
    IF xfer.consumer = Undefined THEN targetType ELSE xfer.consumer.sourceType

\* parse-string that parses every other kind like an integer
parseStringAny(c, inputTransformer, itt) ==
    CASE itt.kind = "enum" ->
            recurse("deserializer", c, inputTransformer, itt, Undefined)
      [] itt.kind = "date-time" ->
            convFn(c, CFFromDatetime, inputTransformer)
      [] OTHER ->
            Ret(c, compose(inputTransformer, CallStep(Atom("int"), <<>>)))

parseString(c, inputTransformer, itt) ==
    CASE itt.kind = "integer" ->
            Ret(c, compose(inputTransformer, CallStep(Atom("int"), <<>>)))
      [] itt.kind = "enum" ->
            recurse("deserializer", c, inputTransformer, itt, Undefined)
      [] itt.kind = "date-time" ->
            convFn(c, CFFromDatetime, inputTransformer)
      [] OTHER ->
            Abort(c, "Parsing of " \o itt.kind \o " in a transformer is not supported")

\* stringify with the integer rendered by the serializer of its type
stringifyBySerializer(c, inputTransformer, sourceType) ==
    CASE sourceType.kind \in {"integer", "enum"} ->
            recurse("serializer", c, inputTransformer, sourceType, Undefined)
      [] sourceType.kind = "date-time" ->
            Ret(c, compose(inputTransformer, PostfixStep(".isoformat()")))
      [] OTHER ->
            Abort(c, "Parsing of " \o sourceType.kind \o " in a transformer is not supported")

stringify(c, inputTransformer, sourceType) ==
    CASE sourceType.kind = "integer" ->
            Ret(c, compose(inputTransformer, CallStep(Atom("str"), <<>>)))
      [] sourceType.kind = "enum" ->
            recurse("serializer", c, inputTransformer, sourceType, Undefined)
      [] sourceType.kind = "date-time" ->
            Ret(c, compose(inputTransformer, PostfixStep(".isoformat()")))
      [] OTHER ->
            Abort(c, "Parsing of " \o sourceType.kind \o " in a transformer is not supported")

transformer(c, inputTransformer, xfer, targetType) ==
    CASE xfer.kind \in {"DecodingChoiceTransformer", "ChoiceTransformer"} ->
            unionOf(lambdas(c, xfer.transformers, "transformer", targetType), inputTransformer)
      [] xfer.kind = "DecodingTransformer" ->
            consumeResult(recurse("deserializer", c, inputTransformer, xfer.sourceType, Undefined),
                          xfer.consumer, targetType)
      [] xfer.kind = "EncodingTransformer" ->
            recurse("serializer", c, inputTransformer, xfer.sourceType, Undefined)
      [] xfer.kind = "UnionInstantiationTransformer" ->
            instantiateUnion(c, inputTransformer)
      [] xfer.kind = "UnionMemberMatchTransformer" ->
            consumeResult(isType(c, xfer.memberType, inputTransformer),
                          xfer.transformer, targetType)
      [] xfer.kind = "ParseStringTransformer" ->
            consumeResult(parseString(c, inputTransformer, immediateTargetType(xfer, targetType)),
                          xfer.consumer, targetType)
      [] xfer.kind = "StringifyTransformer" ->
            consumeResult(stringify(c, inputTransformer, xfer.sourceType),
                          xfer.consumer, targetType)
      [] OTHER ->
            Abort(c, "Transformer " \o xfer.kind \o " is not supported")

\* compose(value, v => [k.source, "(", the lambda of the element, ", ", v, ")"])
elementOf(fn, ls, value) ==
    IF ls.panic # ""
    THEN Abort(Ctx(ls), ls.panic)
    ELSE Ret(Ctx(ls), compose(value, CallStep(fn, ls.sources)))

elementConv(k, value, item, mode) ==
    elementOf(k.source, lambdas(Ctx(k), <<item>>, mode, Undefined), value)

\* compose(value, v => [conv(cf), "(", makeLambda(compile(identity, item)).source, ", ", v, ")"])
elementwise(c, value, cf, item, mode) == elementConv(conv(c, cf), value, item, mode)

\* compose(value, v => [conv("union"), "([", lambdas of the members, "], ", v, ")"])
unionwise(c, value, members, mode) == unionOf(lambdas(c, members, mode, Undefined), value)

deserializer(c, value, t) ==
    IF transformationForType(t) # Undefined
    THEN recurse("transformer", c, value, transformationForType(t).transformer,
                 transformationForType(t).targetType)
    ELSE CASE t.kind = "any" -> Ret(c, value)
           [] t.kind = "null" -> convFn(c, CFNone, value)
           [] t.kind = "bool" -> convFn(c, CFBool, value)
           [] t.kind = "integer" -> convFn(c, CFInt, value)
           [] t.kind = "double" -> convFn(c, CFFromFloat, value)
           [] t.kind = "string" -> convFn(c, CFStr, value)
           [] t.kind = "array" -> elementwise(c, value, CFList, t.items[1], "deserializer")
           [] t.kind = "class" ->
                Ret(c, compose(value,
                               VOL(Undefined,
                                   singleWord(Node(".from_dict", <<nameForNamedType(t)>>)))))
           [] t.kind = "map" -> elementwise(c, value, CFDict, t.items[1], "deserializer")
           [] t.kind = "enum" ->
                Ret(c, compose(value, VOL(Undefined, singleWord(nameForNamedType(t)))))
           [] t.kind = "union" -> unionwise(c, value, t.items, "deserializer")
           [] t.kind = "date-time" -> convFn(c, CFFromDatetime, value)
           [] OTHER -> Abort(c, "Transformed type " \o t.kind \o " not supported")

serializer(c, value, t) ==
    IF transformationForType(t) # Undefined
    THEN recurse("transformer", c, value, transformationForType(t).reverse.transformer,
                 transformationForType(t).reverse.targetType)
    ELSE CASE t.kind = "any" -> Ret(c, value)
           [] t.kind = "null" -> convFn(c, CFNone, value)
           [] t.kind = "bool" -> convFn(c, CFBool, value)
           [] t.kind = "integer" -> convFn(c, CFInt, value)
           [] t.kind = "double" -> convFn(c, CFToFloat, value)
           [] t.kind = "string" -> convFn(c, CFStr, value)
           [] t.kind = "array" -> elementwise(c, value, CFList, t.items[1], "serializer")
           [] t.kind = "class" ->
                composeConv(conv(c, CFToClass), value, <<nameForNamedType(t)>>)
           [] t.kind = "map" -> elementwise(c, value, CFDict, t.items[1], "serializer")
           [] t.kind = "enum" ->
                composeConv(conv(c, CFToEnum), value, <<nameForNamedType(t)>>)
           [] t.kind = "union" -> unionwise(c, value, t.items, "serializer")
           [] t.kind = "date-time" ->
                Ret(c, compose(value, PostfixStep(".isoformat()")))
           [] OTHER -> Abort(c, "Transformed type " \o t.kind \o " not supported")

recurse(fn, c, value, node, targetType) ==
    CASE fn = "transformer" -> transformer(c, value, node, targetType)
      [] fn = "deserializer" -> deserializer(c, value, node)
      [] fn = "serializer" -> serializer(c, value, node)

----------------------------------------------------------------------------
(* Bounds and the inputs drawn within them *)

MaxDepth == 1       \* nesting of arrays and maps around a type

MaxChain == 2       \* number of transformer nodes linked by consumer edges

MaxBranches == 2    \* branches of a choice node, members of a union type

Features ==
    {[version |-> 2, typeHints |-> FALSE, dataClasses |-> FALSE],
     [version |-> 3, typeHints |-> FALSE, dataClasses |-> FALSE],
     [version |-> 3, typeHints |-> TRUE, dataClasses |-> FALSE],
     [version |-> 3, typeHints |-> TRUE, dataClasses |-> TRUE]}

DefaultFeatures == [version |-> 3, typeHints |-> TRUE, dataClasses |-> FALSE]

AnyT == Prim("any")
NullT == Prim("null")
BoolT == Prim("bool")
IntegerT == Prim("integer")
DoubleT == Prim("double")
StringT == Prim("string")
DateTimeT == Prim("date-time")
UuidT == Prim("uuid")
ClassA == Named("class", "A")
ClassB == Named("class", "B")
EnumE == Named("enum", "E")

Decoding(sourceType, consumer) ==
    Xfer("DecodingTransformer", sourceType, consumer, <<>>, Undefined, Undefined)
Encoding(sourceType) ==
    Xfer("EncodingTransformer", sourceType, Undefined, <<>>, Undefined, Undefined)
ParseString(consumer) ==
    Xfer("ParseStringTransformer", StringT, consumer, <<>>, Undefined, Undefined)
Stringify(sourceType, consumer) ==
    Xfer("StringifyTransformer", sourceType, consumer, <<>>, Undefined, Undefined)
UnionInstantiation(sourceType) ==
    Xfer("UnionInstantiationTransformer", sourceType, Undefined, <<>>, Undefined, Undefined)
UnionMemberMatch(memberType, inner) ==
    Xfer("UnionMemberMatchTransformer", AnyT, Undefined, <<>>, memberType, inner)
Choice(kind, transformers) ==
    Xfer(kind, AnyT, Undefined, transformers, Undefined, Undefined)
ArrayDecoding == 
    Xfer("ArrayDecodingTransformer", AnyT, Undefined, <<>>, Undefined, Undefined)

\* the string type that replaces an integer-string: decoded as a string and
\* parsed into an integer, stringified and encoded as a string on the way back
IntegerStringT ==
    Type("string", "", <<>>,
         Transformation(Decoding(StringT, ParseString(Undefined)), IntegerT,
                        Stringify(IntegerT, Encoding(StringT)), StringT))

\* the type that replaces the union of an integer and a date-time
UnionXfT ==
    Type("union", "", <<IntegerT, DateTimeT>>,
         Transformation(
            Choice("DecodingChoiceTransformer",
                   <<Decoding(IntegerT, UnionInstantiation(IntegerT)),
                     Decoding(StringT, ParseString(UnionInstantiation(DateTimeT)))>>),
            Type("union", "", <<IntegerT, DateTimeT>>, Undefined),
            Choice("ChoiceTransformer",
                   <<UnionMemberMatch(IntegerT, Encoding(IntegerT)),
                     UnionMemberMatch(DateTimeT, Stringify(DateTimeT, Encoding(StringT)))>>),
            AnyT))

\* the type that replaces the union of an array of integers and a date-time
UnionArrayXfT ==
    Type("union", "", <<Type("array", "", <<IntegerT>>, Undefined), DateTimeT>>,
         Transformation(
            Choice("DecodingChoiceTransformer",
                   <<Decoding(Type("array", "", <<IntegerT>>, Undefined),
                              UnionInstantiation(Type("array", "", <<IntegerT>>, Undefined))),
                     Decoding(StringT, ParseString(UnionInstantiation(DateTimeT)))>>),
            Type("union", "", <<Type("array", "", <<IntegerT>>, Undefined), DateTimeT>>,
                 Undefined),
            Choice("ChoiceTransformer",
                   <<UnionMemberMatch(Type("array", "", <<IntegerT>>, Undefined),
                                      Encoding(Type("array", "", <<IntegerT>>, Undefined))),
                     UnionMemberMatch(DateTimeT, Stringify(DateTimeT, Encoding(StringT)))>>),
            AnyT))

Injective(q) == \A i, j \in 1..Len(q) : q[i] = q[j] => i = j

SeqsUpTo(S, n) == UNION {[1..k -> S] : k \in 0..n}

MemberTypes == {NullT, IntegerT, StringT, ClassA}

UnionTypes ==
    {Type("union", "", ms, Undefined) :
        ms \in {q \in SeqsUpTo(MemberTypes, MaxBranches) : Len(q) > 0 /\ Injective(q)}}

LeafTypes ==
    {AnyT, NullT, BoolT, IntegerT, DoubleT, StringT, DateTimeT, UuidT, ClassA, EnumE,
     IntegerStringT, UnionXfT} \cup UnionTypes

RECURSIVE TypesOfDepth(_)
TypesOfDepth(d) ==
    IF d = 0 THEN LeafTypes
    ELSE LET inner == TypesOfDepth(d - 1)
         IN  inner \cup {Type("array", "", <<t>>, Undefined) : t \in inner}
                   \cup {Type("map", "", <<t>>, Undefined) : t \in inner}

Types == TypesOfDepth(MaxDepth)

\* transformer chains: the nodes that have a consumer (or an inner transformer)
\* and the nodes that end a chain
ProducerNodes ==
    {Decoding(t, Undefined) : t \in {NullT, BoolT, IntegerT, DoubleT, StringT}}
    \cup {ParseString(Undefined)}
    \cup {Stringify(t, Undefined) : t \in {IntegerT, EnumE, DateTimeT, BoolT}}
    \cup {UnionMemberMatch(t, Undefined) : t \in {IntegerT, DateTimeT, AnyT}}

BranchXfers ==
    {Decoding(IntegerT, UnionInstantiation(IntegerT)),
     Decoding(StringT, ParseString(UnionInstantiation(DateTimeT))),
     UnionMemberMatch(IntegerT, Encoding(IntegerT)),
     UnionMemberMatch(ClassA, Encoding(ClassA)),
     ArrayDecoding}

ChoiceXfers ==
    {Choice(k, bs) : k \in {"DecodingChoiceTransformer", "ChoiceTransformer"},
                     bs \in SeqsUpTo(BranchXfers, MaxBranches)}

TerminalNodes ==
    {UnionInstantiation(AnyT), Encoding(StringT), Encoding(EnumE), ArrayDecoding,
     Choice("ChoiceTransformer",
            <<ParseString(UnionInstantiation(IntegerT)), UnionInstantiation(StringT)>>)}

IsProducer(n) == n \in ProducerNodes

Link(n, rest) ==
    IF n.kind = "UnionMemberMatchTransformer"
    THEN [n EXCEPT !.transformer = rest]
    ELSE [n EXCEPT !.consumer = rest]

RECURSIVE MkChain(_)
MkChain(q) ==
    IF Len(q) = 1 THEN Head(q) ELSE Link(Head(q), MkChain(Tail(q)))

ChainXfers ==
    {MkChain(q) :
        q \in {q \in SeqsUpTo(ProducerNodes \cup TerminalNodes, MaxChain) :
                 /\ Len(q) > 0
                 /\ \A i \in 1..(Len(q) - 1) : IsProducer(q[i])}}

Xfers == ChainXfers \cup ChoiceXfers

\* the last node of a chain of consumers
RECURSIVE LastNode(_)
LastNode(x) ==
    IF x.kind = "UnionMemberMatchTransformer" /\ x.transformer # Undefined
    THEN LastNode(x.transformer)
    ELSE IF x.consumer # Undefined THEN LastNode(x.consumer) ELSE x

\* the target type is read only by a parse-string node without consumer
TargetTypes(x) ==
    IF LastNode(x).kind = "ParseStringTransformer"
    THEN {IntegerT, EnumE, DateTimeT, BoolT}
    ELSE {IntegerT}

StepFns ==
    {CallStep(Atom("int"), <<>>), CallStep(Atom("str"), <<>>),
     PostfixStep(".isoformat()"),
     CallStep(Atom("is_type"), <<Atom("int")>>),
     CallStep(Atom("to_class"), <<Atom("A")>>),
     CallStep(Atom("from_list"), <<Lam(Node("call", <<Atom("from_int"), X>>))>>)}

\* the values compilation starts from, and what earlier steps make of them
StartVols ==
    {identity,
     VOL(Atom("s"), Undefined),
     VOL(Node("call", <<Atom("obj.get"), Atom("k")>>), Undefined)}

InputVols ==
    StartVols
    \cup {compose(v, VOL(Undefined, singleWord(Atom("from_str")))) : v \in StartVols}
    \cup {compose(identity, CallStep(Atom("int"), <<>>))}

FVols ==
    {identity,
     VOL(Undefined, singleWord(Atom("from_int"))),
     VOL(Undefined, multiWord(Lam(Node("call", <<Atom("str"), X>>)))),
     VOL(Atom("s"), Undefined)}

----------------------------------------------------------------------------
(* The compiler as a state machine: one operation applied to the current   *)
(* value-or-lambda                                                          *)

NoOp == [op |-> "none", input |-> identity, arg |-> Undefined, target |-> Undefined,
         out |-> identity, source |-> Undefined, panic |-> "",
         usedBefore |-> <<>>, importsBefore |-> {}]

Done(op, arg, target, out, source, panic) ==
    /\ last' = [op |-> op, input |-> vol, arg |-> arg, target |-> target, out |-> out,
                source |-> source, panic |-> panic,
                usedBefore |-> used, importsBefore |-> imports]
    /\ vol' = out
    /\ pc' = "done"
    /\ UNCHANGED <<ustack, ulog, uret, ufs, features, debug, run, scope, render>>

Compiled(op, arg, target, r) ==
    /\ Done(op, arg, target, r.vol, Undefined, r.panic)
    /\ used' = r.used
    /\ imports' = r.imports

Here == [used |-> used, imports |-> imports]

PanicOf(e) == IF IsPanic(e) THEN e.args[1].op ELSE ""

Composed(f, out) == Done("compose", f, Undefined, out, Undefined, PanicOf(out.value))

Compose ==
    /\ pc = "ready"
    /\ \E f \in StepFns \cup FVols : Composed(f, compose(vol, f))
    /\ UNCHANGED <<used, imports>>

MadeValue(v) == Done("makeValue", Undefined, Undefined, vol, v, PanicOf(v))

MakeValue ==
    /\ pc = "ready"
    /\ MadeValue(makeValue(vol))
    /\ UNCHANGED <<used, imports>>

MakeLambda ==
    /\ pc = "ready"
    /\ Done("makeLambda", Undefined, Undefined, vol, makeLambda(vol).source, "")
    /\ UNCHANGED <<used, imports>>

ConvFn ==
    /\ pc = "ready"
    /\ \E cf \in ConverterFunction : Compiled("convFn", cf, Undefined, convFn(Here, cf, vol))

Deserializer ==
    /\ pc = "ready"
    /\ \E t \in Types : Compiled("deserializer", t, Undefined, deserializer(Here, vol, t))

Serializer ==
    /\ pc = "ready"
    /\ \E t \in Types : Compiled("serializer", t, Undefined, serializer(Here, vol, t))

Transformer ==
    /\ pc = "ready"
    /\ \E x \in Xfers : \E tt \in TargetTypes(x) :
          Compiled("transformer", x, tt, transformer(Here, vol, x, tt))

\* what earlier compilations of the same run may have left behind
Before ==
    {[used |-> <<>>, imports |-> {}],
     [used |-> <<CFUnion, CFIsType>>, imports |-> {<<"enum", "Enum">>}]}

NoOutcome == [kind |-> "none", val |-> <<>>]

NoRun == [op |-> "none", type |-> Undefined, input |-> Undefined,
          obj |-> Undefined, out |-> Undefined]

NoScope == [role |-> "none", names |-> <<>>, label |-> <<>>]

NoSection == [lines |-> <<>>, uses |-> {}, refs |-> {}]

NoRender ==
    [topLevels |-> <<>>, named |-> <<>>, declared |-> 0, gathered |-> <<>>,
     declarationLines |-> NoSection, closingLines |-> NoSection, supportLines |-> NoSection,
     output |-> <<>>, haveTypeVar |-> FALSE, haveEnumTypeVar |-> FALSE,
     haveDateutil |-> FALSE, panic |-> "", declaredTypes |-> {}]

Init ==
    /\ vol \in InputVols
    /\ \E b \in Before : used = b.used /\ imports = b.imports
    /\ features \in Features
    /\ debug = TRUE
    /\ run = NoRun
    /\ scope = NoScope
    /\ render = NoRender
    /\ last = NoOp
    /\ pc = "ready"
    /\ ustack = <<>>
    /\ ulog = <<>>
    /\ uret = NoOutcome
    /\ ufs = <<>>

Next ==
    \/ Compose
    \/ MakeValue
    \/ MakeLambda
    \/ ConvFn
    \/ Deserializer
    \/ Serializer
    \/ Transformer

Spec == Init /\ [][Next]_vars

----------------------------------------------------------------------------
(* The emitted from_union at run time (lines 747-753):                      *)
(*     def from_union(fs, x):                                               *)
(*         for f in fs:                                                     *)
(*             try:                                                         *)
(*                 return f(x)                                              *)
(*             except:                                                      *)
(*                 pass                                                     *)
(*         assert False                                                     *)
(* A branch f is a converter that returns or raises on x, or a lambda that  *)
(* calls from_union on its own list of converters.  The value a converter   *)
(* returns is named by the path of the converter in fs.  assert False is    *)
(* a statement only while __debug__ holds: under python -O it is compiled   *)
(* away and the function ends by returning None.                            *)

MaxFs == 3          \* length of the list fs of the outermost call

Leaf(ok) == [kind |-> "leaf", ok |-> ok, subs |-> <<>>]

NestedUnion(subs) == [kind |-> "union", ok |-> FALSE, subs |-> subs]

NestedFs ==
    {<<>>, <<Leaf(FALSE)>>, <<Leaf(TRUE)>>, <<Leaf(FALSE), Leaf(TRUE)>>,
     <<Leaf(FALSE), Leaf(FALSE)>>, <<Leaf(TRUE), Leaf(FALSE)>>}

Branches == {Leaf(TRUE), Leaf(FALSE)} \cup {NestedUnion(q) : q \in NestedFs}

\* the value None, which is no path
None == <<0>>

Frame(fs, i, at, val) == [fs |-> fs, i |-> i, at |-> at, val |-> val]

Top == ustack[Len(ustack)]

\* the indexes of the branches being called, outermost first
PathOf(stack) == [k \in 1..Len(stack) |-> stack[k].i]

ReplaceTop(stack, fr) == [stack EXCEPT ![Len(stack)] = fr]

Pop(stack) == SubSeq(stack, 1, Len(stack) - 1)

\* try: f(x)  with the value dropped and the loop going on
returnCallDropped(fr, val) == Frame(fr.fs, fr.i, "for", <<>>)

\* except: raise
exceptRaise(fr) == Frame(fr.fs, Len(fr.fs), "assert", <<>>)

\* for f in fs: the next f, or the end of the loop and  assert False
forNext(fr) ==
    IF fr.i < Len(fr.fs)
    THEN Frame(fr.fs, fr.i + 1, "try", <<>>)
    ELSE Frame(fr.fs, fr.i, "assert", <<>>)

\* try: return f(x)  when f(x) has returned val
returnCall(fr, val) == Frame(fr.fs, fr.i, "return", val)

\* try: ... when f(x) has raised
raisedInTry(fr) == Frame(fr.fs, fr.i, "except", <<>>)

\* except: pass
exceptPass(fr) == Frame(fr.fs, fr.i, "for", <<>>)

compilerVars == <<vol, used, imports, last, pc, ufs, features, debug, run, scope, render>>

UFor ==
    /\ ustack # <<>>
    /\ Top.at = "for"
    /\ ustack' = ReplaceTop(ustack, forNext(Top))
    /\ UNCHANGED <<ulog, uret>>
    /\ UNCHANGED compilerVars

\* f(x) for a converter
UCallLeaf ==
    /\ ustack # <<>>
    /\ Top.at = "try"
    /\ Top.fs[Top.i].kind = "leaf"
    /\ ulog' = Append(ulog, PathOf(ustack))
    /\ ustack' = ReplaceTop(ustack,
                            IF Top.fs[Top.i].ok
                            THEN returnCall(Top, PathOf(ustack))
                            ELSE raisedInTry(Top))
    /\ UNCHANGED uret
    /\ UNCHANGED compilerVars

\* f(x) for a lambda that calls from_union
UCallNested ==
    /\ ustack # <<>>
    /\ Top.at = "try"
    /\ Top.fs[Top.i].kind = "union"
    /\ ulog' = Append(ulog, PathOf(ustack))
    /\ ustack' = Append(ReplaceTop(ustack, Frame(Top.fs, Top.i, "call", <<>>)),
                        Frame(Top.fs[Top.i].subs, 0, "for", <<>>))
    /\ UNCHANGED uret
    /\ UNCHANGED compilerVars

UExcept ==
    /\ ustack # <<>>
    /\ Top.at = "except"
    /\ ustack' = ReplaceTop(ustack, exceptPass(Top))
    /\ UNCHANGED <<ulog, uret>>
    /\ UNCHANGED compilerVars

\* return: the call ends with a value, which the caller's  return f(x)  receives
UReturn ==
    /\ ustack # <<>>
    /\ Top.at = "return"
    /\ IF Len(ustack) = 1
       THEN /\ ustack' = <<>>
            /\ uret' = [kind |-> "returned", val |-> Top.val]
       ELSE /\ ustack' = ReplaceTop(Pop(ustack), returnCall(ustack[Len(ustack) - 1], Top.val))
            /\ UNCHANGED uret
    /\ UNCHANGED ulog
    /\ UNCHANGED compilerVars

\* assert False: the call ends with an AssertionError, raised inside the caller's try
UAssertFalse ==
    /\ ustack # <<>>
    /\ Top.at = "assert"
    /\ IF debug
       THEN IF Len(ustack) = 1
            THEN /\ ustack' = <<>>
                 /\ uret' = [kind |-> "raised", val |-> <<>>]
            ELSE /\ ustack' = ReplaceTop(Pop(ustack), raisedInTry(ustack[Len(ustack) - 1]))
                 /\ UNCHANGED uret
       ELSE IF Len(ustack) = 1
            THEN /\ ustack' = <<>>
                 /\ uret' = [kind |-> "returned", val |-> None]
            ELSE /\ ustack' = ReplaceTop(Pop(ustack), returnCall(ustack[Len(ustack) - 1], None))
                 /\ UNCHANGED uret
    /\ UNCHANGED ulog
    /\ UNCHANGED compilerVars

InitUnion ==
    /\ vol = identity
    /\ used = <<>>
    /\ imports = {}
    /\ features = DefaultFeatures
    /\ debug \in BOOLEAN
    /\ run = NoRun
    /\ scope = NoScope
    /\ render = NoRender
    /\ last = NoOp
    /\ pc = "run"
    /\ ufs \in SeqsUpTo(Branches, MaxFs)
    /\ ustack = <<Frame(ufs, 0, "for", <<>>)>>
    /\ ulog = <<>>
    /\ uret = NoOutcome

NextUnion ==
    \/ UFor
    \/ UCallLeaf
    \/ UCallNested
    \/ UExcept
    \/ UReturn
    \/ UAssertFalse

SpecUnion == InitUnion /\ [][NextUnion]_vars

----------------------------------------------------------------------------
(* The emitted code at run time.  Python values are trees like the source:  *)
(* the class of the value and what it holds.  Raise is the outcome of an    *)
(* expression that raises an exception.                                     *)

VNone == Atom("None")

VBool(b) == Node("bool", <<Atom(b)>>)

VInt(n) == Node("int", <<Atom(n)>>)

VFloat(n) == Node("float", <<Atom(n)>>)

VStr(str) == Node("str", <<Atom(str)>>)

VList(es) == Node("list", es)

Entry(k, v) == Node(k, <<v>>)

VDict(entries) == Node("dict", entries)

VDatetime(iso) == Node("datetime", <<Atom(iso)>>)

VEnum(name, value) == Node("enum", <<Atom(name), value>>)

VObject(name, fields) == Node("object", <<Atom(name)>> \o fields)

Raise == Atom("raise")

Raised(v) == v = Raise

\* the same instant written with Z and as datetime.isoformat() writes it
DateZ == "2020-01-01T00:00:00Z"

DateIso == "2020-01-01T00:00:00+00:00"

\* the isoformat of day 7 of the current month, which a bare day number is read as
DateDay7 == "<current year and month>-07T00:00:00"

\* the number a string of the model is read as, "" if it is no number
NumberOfString(str) ==
    CASE str \in {"7", "007"} -> "7"
      [] OTHER -> ""

\* dateutil.parser.parse on the strings of the model: the isoformat of the
\* datetime it returns, "" if it raises
DateOfString(str) ==
    CASE str \in {DateZ, DateIso} -> DateIso
      [] str \in {"7", "007", DateDay7} -> DateDay7
      [] OTHER -> ""

\* the cases of the enum and the properties of the class of the model
EnumValues(name) == {"x", "y"}

\* class A has an integer and a date-time; class B refers to class A, to
\* itself (in an array) and to the enum
classProperties(name) ==
    IF name = "B"
    THEN <<[name |-> "a", json |-> "a", type |-> Named("class", "A")],
           [name |-> "b", json |-> "b",
            type |-> Type("array", "", <<Named("class", "B")>>, Undefined)],
           [name |-> "e", json |-> "e", type |-> Named("enum", "E")]>>
    ELSE <<[name |-> "p", json |-> "p", type |-> IntegerT],
           [name |-> "q", json |-> "q", type |-> DateTimeT]>>

\* assert cond; return v
Asserted(cond, v) == IF debug /\ ~cond THEN Raise ELSE v

\* float(x)
pyFloat(x) ==
    CASE x.op \in {"int", "float"} -> VFloat(x.args[1].op)
      [] x.op = "bool" -> VFloat(IF x.args[1].op = "True" THEN "1" ELSE "0")
      [] x.op = "str" /\ NumberOfString(x.args[1].op) # "" -> VFloat(NumberOfString(x.args[1].op))
      [] OTHER -> Raise

\* int(x)
pyInt(x) ==
    CASE x.op = "int" -> x
      [] x.op = "float" -> VInt(IF x.args[1].op = "7.5" THEN "7" ELSE x.args[1].op)
      [] x.op = "bool" -> VInt(IF x.args[1].op = "True" THEN "1" ELSE "0")
      [] x.op = "str" /\ NumberOfString(x.args[1].op) # "" -> VInt(NumberOfString(x.args[1].op))
      [] OTHER -> Raise

\* str(x)
pyStr(x) ==
    CASE x.op = "str" -> x
      [] x.op \in {"int", "bool", "datetime"} -> VStr(x.args[1].op)
      [] x.op = "float" -> VStr(IF x.args[1].op = "7.5" THEN "7.5" ELSE x.args[1].op \o ".0")
      [] OTHER -> VStr("<" \o x.op \o ">")

\* x.isoformat()
isoformat(x) == IF x.op = "datetime" THEN VStr(x.args[1].op) ELSE Raise

\* isinstance(x, t) for the type objects the compiler emits
IsInstance(x, t) ==
    CASE t = "type(None)" -> x = VNone
      [] t = "bool" -> x.op = "bool"
      [] t = "int" -> x.op \in {"int", "bool"}
      [] t = "float" -> x.op = "float"
      [] t = "str" -> x.op = "str"
      [] t = "List" -> x.op = "list"
      [] t = "dict" -> x.op = "dict"
      [] t = "datetime" -> x.op = "datetime"
      [] OTHER -> x.op \in {"object", "enum"} /\ x.args[1].op = t

from_none(x) == Asserted(x = VNone, x)

from_bool(x) == Asserted(x.op = "bool", x)

from_int(x) == Asserted(x.op = "int", x)

from_float(x) == IF debug /\ x.op \notin {"int", "float"} THEN Raise ELSE pyFloat(x)

to_float(x) == Asserted(x.op = "float", x)

from_str(x) == Asserted(x.op = "str", x)

from_datetime(x) ==
    IF x.op = "str" /\ DateOfString(x.args[1].op) # ""
    THEN VDatetime(DateOfString(x.args[1].op))
    ELSE Raise

is_type(t, x) == Asserted(IsInstance(x, t), x)

\* to_enum(c, x):  assert isinstance(x, c); return x.value
to_enum(c, x) == IF x.op = "enum" /\ (x.args[1].op = c \/ ~debug) THEN x.args[2] ELSE Raise

\* c(x) for an enum class c: the member whose value is x
enumOf(c, x) ==
    IF x.op = "enum" /\ x.args[1].op = c THEN x
    ELSE IF x.op = "str" /\ x.args[1].op \in EnumValues(c) THEN VEnum(c, x)
    ELSE Raise

\* obj.get(k)
dictGet(obj, k) ==
    IF obj.op # "dict" THEN Raise
    ELSE IF \E i \in 1..Len(obj.args) : obj.args[i].op = k
    THEN obj.args[CHOOSE i \in 1..Len(obj.args) : obj.args[i].op = k].args[1]
    ELSE VNone

\* self.name
selfField(self, name) ==
    IF self.op # "object" THEN Raise
    ELSE self.args[1 + CHOOSE i \in 1..Len(classProperties(self.args[1].op)) :
                            classProperties(self.args[1].op)[i].name = name]

\* the call of a function of one argument by its name
CallNamed(name, v) ==
    IF Raised(v) THEN Raise
    ELSE CASE name = "from_none" -> from_none(v)
           [] name = "from_bool" -> from_bool(v)
           [] name = "from_int" -> from_int(v)
           [] name = "from_float" -> from_float(v)
           [] name = "to_float" -> to_float(v)
           [] name = "from_str" -> from_str(v)
           [] name = "from_datetime" -> from_datetime(v)
           [] name = "int" -> pyInt(v)
           [] name = "str" -> pyStr(v)
           [] name = "E" -> enumOf(name, v)
           [] OTHER -> Raise

AnyRaised(vs) == \E i \in 1..Len(vs) : Raised(vs[i])

ListOrRaise(ys) == IF AnyRaised(ys) THEN Raise ELSE VList(ys)

DictOrRaise(es) ==
    IF \E i \in 1..Len(es) : Raised(es[i].args[1]) THEN Raise ELSE VDict(es)

ObjectOrRaise(name, fields) == IF AnyRaised(fields) THEN Raise ELSE VObject(name, fields)

EmptyCtx == [used |-> <<>>, imports |-> {}]

objGet(k) == Node("call", <<Atom("obj.get"), Atom(k)>>)

selfDot(name) == Node("self.", <<Atom(name)>>)

RECURSIVE Unparen(_)
Unparen(f) == IF f.op = "()" THEN Unparen(f.args[1]) ELSE f

RECURSIVE Eval(_, _, _)
RECURSIVE fromUnionRun(_, _, _)

\* fn(v) for a function given by its source
ApplyTo(fn, v, o) == Eval(Node("call", <<fn, X>>), v, o)

\* from_list(f, x):  assert isinstance(x, list); return [f(y) for y in x]
\* (run on lists only)
fromListRun(fn, v, o) ==
    IF v.op # "list" THEN Raise
    ELSE ListOrRaise([i \in 1..Len(v.args) |-> ApplyTo(fn, v.args[i], o)])

\* from_dict(f, x):  assert isinstance(x, dict); return { k: f(v) for (k, v) in x.items() }
\* (run on dicts only)
fromDictRun(fn, v, o) ==
    IF v.op # "dict" THEN Raise
    ELSE DictOrRaise([i \in 1..Len(v.args) |->
                        Entry(v.args[i].op, ApplyTo(fn, v.args[i].args[1], o))])

FirstOr(r, fs, v, o) == IF Raised(r) THEN fromUnionRun(fs, v, o) ELSE r

\* from_union(fs, x) as one call
fromUnionRun(fs, v, o) ==
    IF Raised(v) THEN Raise
    ELSE IF fs = <<>> THEN (IF debug THEN Raise ELSE VNone)
    ELSE FirstOr(ApplyTo(Head(fs), v, o), Tail(fs), v, o)

\* the static method from_dict of the class: every property deserialized
\* from obj.get(its JSON name), then the constructor
classFromDict(name, obj) ==
    IF obj.op # "dict" THEN Raise
    ELSE ObjectOrRaise(name,
            [i \in 1..Len(classProperties(name)) |->
                Eval(makeValue(deserializer(EmptyCtx,
                                            VOL(objGet(classProperties(name)[i].json), Undefined),
                                            classProperties(name)[i].type).vol),
                     obj, obj)])

\* to_class(c, x):  assert isinstance(x, c); return x.to_dict() , with to_dict
\* serializing every property from self.name
classToDict(name, self) ==
    IF self.op # "object" THEN Raise
    ELSE DictOrRaise(
            [i \in 1..Len(classProperties(name)) |->
                Entry(classProperties(name)[i].json,
                      Eval(makeValue(serializer(EmptyCtx,
                                                VOL(selfDot(classProperties(name)[i].name), Undefined),
                                                classProperties(name)[i].type).vol),
                           self, self))])

\* the call f(args) with x the parameter of the innermost lambda and o the
\* parameter of the enclosing function
Call(f, args, x, o) ==
    CASE f.op = "lambda" -> Eval(f.args[1], Eval(args[1], x, o), o)
      [] f.op = ".from_dict" -> classFromDict(f.args[1].op, Eval(args[1], x, o))
      [] f.op = "obj.get" -> dictGet(o, args[1].op)
      [] f.op = "from_list" -> fromListRun(args[1], Eval(args[2], x, o), o)
      [] f.op = "from_dict" -> fromDictRun(args[1], Eval(args[2], x, o), o)
      [] f.op = "from_union" -> fromUnionRun(args[1].args, Eval(args[2], x, o), o)
      [] f.op = "is_type" -> is_type(args[1].op, Eval(args[2], x, o))
      [] f.op = "to_enum" -> to_enum(args[1].op, Eval(args[2], x, o))
      [] f.op = "to_class" -> classToDict(args[1].op, Eval(args[2], x, o))
      [] OTHER -> CallNamed(f.op, Eval(args[1], x, o))

\* the value of the expression e
Eval(e, x, o) ==
    CASE e = X -> x
      [] e = Atom("s") -> o
      [] e.op = "()" -> Eval(e.args[1], x, o)
      [] e.op = "self." -> selfField(o, e.args[1].op)
      [] e.op = ".isoformat()" -> isoformat(Eval(e.args[1], x, o))
      [] e.op = "call" -> Call(Unparen(e.args[1]), Tail(e.args), x, o)
      [] OTHER -> Raise

\* the generic JSON values the emitted code is run on
MaxItems == 1       \* elements of a list of the input

GenericStrings == {"7", "007", "x", DateZ, DateIso}

GenericPrims ==
    {VNone, VBool("True"), VInt("7"), VFloat("7.5")} \cup {VStr(str) : str \in GenericStrings}

GenericValues ==
    GenericPrims
    \cup {VList(q) : q \in SeqsUpTo(GenericPrims, MaxItems)}
    \cup {VDict(<<>>)}
    \cup {VDict(<<Entry("k", a)>>) : a \in GenericPrims}
    \cup {VDict(<<Entry("p", a), Entry("q", b)>>) :
            a \in {VInt("7"), VStr("7")}, b \in {VStr(DateZ), VStr(DateIso), VStr("x")}}

RECURSIVE UnionFree(_)
UnionFree(t) ==
    /\ t.kind # "union"
    /\ \A i \in 1..Len(t.items) : UnionFree(t.items[i])

\* the types whose converters are run: without unions, and compiled without
\* abort
RunTypes ==
    {t \in Types : UnionFree(t) /\ deserializer(EmptyCtx, identity, t).panic = ""}

RECURSIVE Matches(_, _)
\* the generic value v has the shape of the type t
Matches(t, v) ==
    CASE t.kind = "any" -> TRUE
      [] t.kind = "null" -> v = VNone
      [] t.kind = "bool" -> v.op = "bool"
      [] t.kind = "integer" -> v.op = "int"
      [] t.kind = "double" -> v.op \in {"int", "float"}
      [] t.kind = "string" /\ t.xf = Undefined -> v.op = "str"
      [] t.kind = "string" /\ t.xf # Undefined ->
            v.op = "str" /\ NumberOfString(v.args[1].op) # ""
      [] t.kind = "date-time" -> v.op = "str" /\ v.args[1].op \in {DateZ, DateIso}
      [] t.kind = "enum" -> v.op = "str" /\ v.args[1].op \in EnumValues(t.name)
      [] t.kind = "class" ->
            /\ v.op = "dict"
            /\ Len(v.args) = Len(classProperties(t.name))
            /\ \A i \in 1..Len(v.args) :
                    /\ v.args[i].op = classProperties(t.name)[i].json
                    /\ Matches(classProperties(t.name)[i].type, v.args[i].args[1])
      [] t.kind = "array" ->
            v.op = "list" /\ \A i \in 1..Len(v.args) : Matches(t.items[1], v.args[i])
      [] t.kind = "map" ->
            v.op = "dict" /\ \A i \in 1..Len(v.args) : Matches(t.items[1], v.args[i].args[1])
      [] OTHER -> FALSE

PrimitiveDecoders ==
    {"from_none", "from_bool", "from_int", "from_float", "from_str", "from_datetime"}

Ran(op, type, obj, out, at) ==
    /\ run' = [op |-> op, type |-> type, input |-> run.input, obj |-> obj, out |-> out]
    /\ pc' = at
    /\ UNCHANGED <<vol, used, imports, last, ustack, ulog, uret, ufs, features, debug, scope, render>>

\* the top-level from-dict function: return <deserializer of t on s>
RunDeserialize ==
    /\ pc = "start"
    /\ Ran("deserialize", run.type,
           Eval(makeValue(deserializer(EmptyCtx, VOL(Atom("s"), Undefined), run.type).vol),
                run.input, run.input),
           Undefined, "deserialized")

\* the top-level to-dict function: return <serializer of t on x>
RunSerialize ==
    /\ pc = "deserialized"
    /\ ~Raised(run.obj)
    /\ Ran("serialize", run.type, run.obj,
           Eval(makeValue(serializer(EmptyCtx, VOL(X, Undefined), run.type).vol),
                run.obj, run.obj),
           "serialized")

\* one emitted primitive decode converter called on the input
RunConverter ==
    /\ pc = "start"
    /\ \E name \in PrimitiveDecoders :
          Ran(name, Undefined, Undefined, CallNamed(name, run.input), "called")

\* a parse-string node without consumer run on the input
RunParse ==
    /\ pc = "start"
    /\ \E t \in {IntegerT, EnumE, DateTimeT} :
          Ran("parse", t,
              Eval(makeValue(transformer(EmptyCtx, VOL(Atom("s"), Undefined),
                                         ParseString(Undefined), t).vol),
                   run.input, run.input),
              Undefined, "parsed")

\* the stringify node of the same kind run on the parsed value
RunStringify ==
    /\ pc = "parsed"
    /\ ~Raised(run.obj)
    /\ Ran("stringify", run.type, run.obj,
           Eval(makeValue(transformer(EmptyCtx, VOL(X, Undefined),
                                      Stringify(run.type, Undefined), StringT).vol),
                run.obj, run.obj),
           "stringified")

\* collections and classes are run on values of their shape
InitRun ==
    /\ vol = identity
    /\ used = <<>>
    /\ imports = {}
    /\ features = DefaultFeatures
    /\ last = NoOp
    /\ pc = "start"
    /\ ufs = <<>>
    /\ ustack = <<>>
    /\ ulog = <<>>
    /\ uret = NoOutcome
    /\ debug \in BOOLEAN
    /\ scope = NoScope
    /\ render = NoRender
    /\ \E t \in RunTypes : \E g \in GenericValues :
          /\ t.kind \in {"array", "map", "class"} => Matches(t, g)
          /\ run = [op |-> "none", type |-> t, input |-> g,
                    obj |-> Undefined, out |-> Undefined]

NextRun ==
    \/ RunDeserialize
    \/ RunSerialize
    \/ RunConverter
    \/ RunParse
    \/ RunStringify

SpecRun == InitRun /\ [][NextRun]_vars

----------------------------------------------------------------------------
(* Names: the identifier rules and name styles, and the forbidden words *)

MaxLabel == 2

\* characters are UTF-16 units, written as themselves or as their code point
LowerCase ==
    <<"a", "b", "c", "d", "e", "f", "g", "h", "i", "j", "k", "l", "m", "n", "o", "p", "q", "r", "s", "t", "u", "v", "w", "x", "y", "z",
      "U+00E9">>

UpperCase ==
    <<"A", "B", "C", "D", "E", "F", "G", "H", "I", "J", "K", "L", "M", "N", "O", "P", "Q", "R", "S", "T", "U", "V", "W", "X", "Y", "Z",
      "U+00C9">>

DigitChars == <<"0", "1", "2", "3", "4", "5", "6", "7", "8", "9">>

CharsOf(s) == {s[i] : i \in 1..Len(s)}

IndexIn(c, s) == CHOOSE i \in 1..Len(s) : s[i] = c

LowerChars == CharsOf(LowerCase)

UpperChars == CharsOf(UpperCase)

UpperOf == [c \in LowerChars |-> UpperCase[IndexIn(c, LowerCase)]]

LowerOf == [c \in UpperChars |-> LowerCase[IndexIn(c, UpperCase)]]

isAscii(c) == c \notin {"U+00E9", "U+00C9", "U+00AA"}

\* unicode.getCategory
getCategory(c) ==
    CASE c \in LowerChars -> "Ll"
      [] c \in UpperChars -> "Lu"
      [] c \in {"0", "1", "2", "3", "4", "5", "6", "7", "8", "9"} -> "Nd"
      [] c = "_" -> "Pc"
      [] c = "-" -> "Pd"
      [] c = "U+00AA" -> "Lo"
      [] OTHER -> "Cn"

\* String.fromCharCode(c).normalize("NFKC"): the feminine ordinal becomes a
normalize(c) == IF c = "U+00AA" THEN <<"a">> ELSE <<c>>

toUpperCase(c) == IF c \in LowerChars THEN UpperOf[c] ELSE c

toLowerCase(c) == IF c \in UpperChars THEN LowerOf[c] ELSE c

isLetter(c) == getCategory(c) \in {"Lu", "Ll", "Lt", "Lo"}

isDigit(c) == getCategory(c) = "Nd"

isLetterOrUnderscoreOrDigit(c) == isLetter(c) \/ c = "_" \/ isDigit(c)

isStartCharacter2(c) == isAscii(c) /\ isLetter(c)

isPartCharacter2(c) == isAscii(c) /\ isLetterOrUnderscoreOrDigit(c)

isNormalizedStartCharacter3(c) == getCategory(c) \in {"Lu", "Ll", "Lt", "Lm", "Lo", "Nl"}

isNormalizedPartCharacter3(c) ==
    \/ isNormalizedStartCharacter3(c)
    \/ getCategory(c) \in {"Mn", "Mc", "Nd", "Pc"}

isStartCharacter3(c) ==
    /\ Len(normalize(c)) # 0
    /\ isNormalizedStartCharacter3(normalize(c)[1])
    /\ \A i \in 2..Len(normalize(c)) : isNormalizedPartCharacter3(normalize(c)[i])

isPartCharacter3(c) ==
    \A i \in 1..Len(normalize(c)) : isNormalizedPartCharacter3(normalize(c)[i])

\* a function passed by name: the character tests
TestChar(test, c) ==
    CASE test = "isStartCharacter2" -> isStartCharacter2(c)
      [] test = "isStartCharacter3" -> isStartCharacter3(c)
      [] test = "isPartCharacter2" -> isPartCharacter2(c)
      [] test = "isPartCharacter3" -> isPartCharacter3(c)

RECURSIVE utf16LegalizeCharacters(_, _)
\* the characters of s that are legal, the others dropped
utf16LegalizeCharacters(isLegal, s) ==
    IF s = <<>> THEN <<>>
    ELSE (IF TestChar(isLegal, Head(s)) THEN <<Head(s)>> ELSE <<>>)
         \o utf16LegalizeCharacters(isLegal, Tail(s))

legalizeName2(s) == utf16LegalizeCharacters("isPartCharacter2", s)

legalizeName3(s) == utf16LegalizeCharacters("isPartCharacter3", s)

firstUpperWordStyle(w) ==
    [i \in 1..Len(w) |-> IF i = 1 THEN toUpperCase(w[i]) ELSE toLowerCase(w[i])]

allUpperWordStyle(w) == [i \in 1..Len(w) |-> toUpperCase(w[i])]

allLowerWordStyle(w) == [i \in 1..Len(w) |-> toLowerCase(w[i])]

\* a function passed by name: the legalizers and the word styles
StyleWord(style, w) ==
    CASE style = "legalizeName2" -> legalizeName2(w)
      [] style = "legalizeName3" -> legalizeName3(w)
      [] style = "firstUpperWordStyle" -> firstUpperWordStyle(w)
      [] style = "allUpperWordStyle" -> allUpperWordStyle(w)
      [] style = "allLowerWordStyle" -> allLowerWordStyle(w)

isWordCharacter(c) == isLetter(c) \/ isDigit(c)

\* a word ends between a and b: at a letter/digit boundary and where lower
\* case is followed by upper case
WordBreak(a, b) ==
    \/ isDigit(a) # isDigit(b)
    \/ getCategory(a) # "Lu" /\ getCategory(b) = "Lu"

WordInName(w) ==
    [word |-> w, isAcronym |-> Len(w) > 1 /\ \A i \in 1..Len(w) : getCategory(w[i]) = "Lu"]

EndWord(words, w) == IF w = <<>> THEN words ELSE Append(words, WordInName(w))

RECURSIVE splitFrom(_, _, _)
splitFrom(s, w, words) ==
    IF s = <<>> THEN EndWord(words, w)
    ELSE IF ~isWordCharacter(Head(s)) THEN splitFrom(Tail(s), <<>>, EndWord(words, w))
    ELSE IF w # <<>> /\ WordBreak(w[Len(w)], Head(s))
         THEN splitFrom(Tail(s), <<Head(s)>>, EndWord(words, w))
    ELSE splitFrom(Tail(s), Append(w, Head(s)), words)

splitIntoWords(s) == splitFrom(s, <<>>, <<>>)

RECURSIVE legalizedWords(_, _)
\* the words legalized, the ones left empty dropped
legalizedWords(words, removeInvalidCharacters) ==
    IF words = <<>> THEN <<>>
    ELSE (IF StyleWord(removeInvalidCharacters, Head(words).word) = <<>> THEN <<>>
          ELSE <<[word |-> StyleWord(removeInvalidCharacters, Head(words).word),
                  isAcronym |-> Head(words).isAcronym]>>)
         \o legalizedWords(Tail(words), removeInvalidCharacters)

OrEmpty(words, removeInvalidCharacters) ==
    IF words = <<>>
    THEN <<[word |-> StyleWord(removeInvalidCharacters, <<"e", "m", "p", "t", "y">>),
            isAcronym |-> FALSE]>>
    ELSE words

RECURSIVE joinRest(_, _, _, _)
joinRest(words, restWordStyle, restAcronymStyle, separator) ==
    IF words = <<>> THEN <<>>
    ELSE separator
         \o StyleWord(IF Head(words).isAcronym THEN restAcronymStyle ELSE restWordStyle,
                      Head(words).word)
         \o joinRest(Tail(words), restWordStyle, restAcronymStyle, separator)

\* words is not empty: the first word styled, or "the" before every word
\* when the first word does not start like an identifier
joinWords(words, removeInvalidCharacters, firstWordStyle, restWordStyle, firstWordAcronymStyle, restAcronymStyle, separator, isStartCharacter) ==
    IF TestChar(isStartCharacter,
                StyleWord(IF words[1].isAcronym THEN firstWordAcronymStyle ELSE firstWordStyle,
                          words[1].word)[1])
    THEN StyleWord(IF words[1].isAcronym THEN firstWordAcronymStyle ELSE firstWordStyle,
                   words[1].word)
         \o joinRest(Tail(words), restWordStyle, restAcronymStyle, separator)
    ELSE StyleWord(firstWordStyle, StyleWord(removeInvalidCharacters, <<"t", "h", "e">>))
         \o joinRest(words, restWordStyle, restAcronymStyle, separator)

combineWords(words, removeInvalidCharacters, firstWordStyle, restWordStyle, firstWordAcronymStyle, restAcronymStyle, separator, isStartCharacter) ==
    joinWords(OrEmpty(legalizedWords(words, removeInvalidCharacters), removeInvalidCharacters),
              removeInvalidCharacters, firstWordStyle, restWordStyle,
              firstWordAcronymStyle, restAcronymStyle, separator, isStartCharacter)

\* class names legalized by the Unicode rule in both versions
classNameStyleUnicode(version, original) ==
    combineWords(splitIntoWords(original),
                 "legalizeName3",
                 "firstUpperWordStyle", "firstUpperWordStyle",
                 "allUpperWordStyle", "allUpperWordStyle",
                 <<>>,
                 IF version = 2 THEN "isStartCharacter2" ELSE "isStartCharacter3")

classNameStyle(version, original) ==
    combineWords(splitIntoWords(original),
                 IF version = 2 THEN "legalizeName2" ELSE "legalizeName3",
                 "firstUpperWordStyle", "firstUpperWordStyle",
                 "allUpperWordStyle", "allUpperWordStyle",
                 <<>>,
                 IF version = 2 THEN "isStartCharacter2" ELSE "isStartCharacter3")

snakeNameStyle(version, original, uppercase) ==
    combineWords(splitIntoWords(original),
                 IF version = 2 THEN "legalizeName2" ELSE "legalizeName3",
                 IF uppercase THEN "allUpperWordStyle" ELSE "allLowerWordStyle",
                 IF uppercase THEN "allUpperWordStyle" ELSE "allLowerWordStyle",
                 IF uppercase THEN "allUpperWordStyle" ELSE "allLowerWordStyle",
                 IF uppercase THEN "allUpperWordStyle" ELSE "allLowerWordStyle",
                 <<"_">>,
                 "isStartCharacter3")

forbiddenTypeNames ==
    {<<"A", "n", "y">>, <<"T", "r", "u", "e">>, <<"F", "a", "l", "s", "e">>,
     <<"N", "o", "n", "e">>, <<"E", "n", "u", "m">>, <<"L", "i", "s", "t">>,
     <<"D", "i", "c", "t">>, <<"O", "p", "t", "i", "o", "n", "a", "l">>,
     <<"U", "n", "i", "o", "n">>, <<"I", "t", "e", "r", "a", "b", "l", "e">>,
     <<"T", "y", "p", "e">>, <<"T", "y", "p", "e", "V", "a", "r">>, <<"T">>,
     <<"E", "n", "u", "m", "T">>}

forbiddenPropertyNames ==
    {<<"a", "n", "d">>, <<"a", "s">>, <<"a", "s", "s", "e", "r", "t">>,
     <<"a", "s", "y", "n", "c">>, <<"a", "w", "a", "i", "t">>, <<"b", "o", "o", "l">>,
     <<"b", "r", "e", "a", "k">>, <<"c", "l", "a", "s", "s">>,
     <<"c", "o", "n", "t", "i", "n", "u", "e">>,
     <<"d", "a", "t", "e", "t", "i", "m", "e">>, <<"d", "e", "f">>, <<"d", "e", "l">>,
     <<"d", "i", "c", "t">>, <<"e", "l", "i", "f">>, <<"e", "l", "s", "e">>,
     <<"e", "x", "c", "e", "p", "t">>, <<"f", "i", "n", "a", "l", "l", "y">>,
     <<"f", "l", "o", "a", "t">>, <<"f", "o", "r">>, <<"f", "r", "o", "m">>,
     <<"g", "l", "o", "b", "a", "l">>, <<"i", "f">>, <<"i", "m", "p", "o", "r", "t">>,
     <<"i", "n">>, <<"i", "n", "t">>, <<"i", "s">>, <<"l", "a", "m", "b", "d", "a">>,
     <<"n", "o", "n", "l", "o", "c", "a", "l">>, <<"n", "o", "t">>, <<"o", "r">>,
     <<"p", "a", "s", "s">>, <<"p", "r", "i", "n", "t">>, <<"r", "a", "i", "s", "e">>,
     <<"r", "e", "t", "u", "r", "n">>, <<"s", "e", "l", "f">>, <<"s", "t", "r">>,
     <<"t", "r", "y">>, <<"w", "h", "i", "l", "e">>, <<"w", "i", "t", "h">>,
     <<"y", "i", "e", "l", "d">>}

forbiddenNamesForGlobalNamespace == forbiddenTypeNames

\* no word forbidden for properties
forbiddenForObjectPropertiesNone ==
    [names |-> {}, includeGlobalForbidden |-> FALSE]

forbiddenForObjectProperties ==
    [names |-> forbiddenPropertyNames, includeGlobalForbidden |-> FALSE]

\* makeNamedTypeNamer, namerForObjectProperty, makeEnumCaseNamer
Roles == {"type", "property", "enum-case"}

nameStyle(role, version, s) ==
    CASE role = "type" -> classNameStyle(version, s)
      [] role = "property" -> snakeNameStyle(version, s, FALSE)
      [] role = "enum-case" -> snakeNameStyle(version, s, TRUE)

forbiddenWords(role) ==
    CASE role = "type" -> forbiddenNamesForGlobalNamespace
      [] role = "property" -> forbiddenForObjectProperties.names
      [] role = "enum-case" -> {}

RECURSIVE disambiguate(_, _, _, _, _)
\* the label styled, with the first numeric suffix from n on that makes it free
disambiguate(label, role, version, taken, n) ==
    IF nameStyle(role, version, label \o <<"_", DigitChars[n + 1]>>) \notin taken
    THEN nameStyle(role, version, label \o <<"_", DigitChars[n + 1]>>)
    ELSE disambiguate(label, role, version, taken, n + 1)

assignName(label, role, version, names, forbidden) ==
    IF nameStyle(role, version, label) \notin CharsOf(names) \cup forbidden
    THEN nameStyle(role, version, label)
    ELSE disambiguate(label, role, version, CharsOf(names) \cup forbidden, 2)

\* the characters of the labels
Alphabet == {"i", "s", "T", "3", "-", "U+00AA"}

Labels == SeqsUpTo(Alphabet, MaxLabel)

\* the entities of a namespace, in the order their names are assigned
EntityOrder == <<"first", "second">>

Assigned(role, label) ==
    /\ scope' = [role |-> role, label |-> label,
                 names |-> Append(scope.names,
                                  assignName(label, role, features.version, scope.names,
                                             forbiddenWords(role)))]
    /\ UNCHANGED <<vol, used, imports, last, pc, ustack, ulog, uret, ufs, features, debug, run, render>>

AssignTypeName ==
    /\ pc = "names"
    /\ scope.role = "type"
    /\ Len(scope.names) < Len(EntityOrder)
    /\ \E label \in Labels : Assigned("type", label)

AssignPropertyName ==
    /\ pc = "names"
    /\ scope.role = "property"
    /\ Len(scope.names) < Len(EntityOrder)
    /\ \E label \in Labels : Assigned("property", label)

AssignEnumCaseName ==
    /\ pc = "names"
    /\ scope.role = "enum-case"
    /\ Len(scope.names) < Len(EntityOrder)
    /\ \E label \in Labels : Assigned("enum-case", label)

InitNames ==
    /\ vol = identity
    /\ used = <<>>
    /\ imports = {}
    /\ features \in Features
    /\ last = NoOp
    /\ pc = "names"
    /\ ufs = <<>>
    /\ ustack = <<>>
    /\ ulog = <<>>
    /\ uret = NoOutcome
    /\ debug = TRUE
    /\ run = NoRun
    /\ render = NoRender
    /\ \E role \in Roles : scope = [role |-> role, names |-> <<>>, label |-> <<>>]

NextNames ==
    \/ AssignTypeName
    \/ AssignPropertyName
    \/ AssignEnumCaseName

SpecNames == InitNames /\ [][NextNames]_vars

----------------------------------------------------------------------------
(* The renderer at work: emitSourceStructure and what it calls *)

\* the renderer's fields while a section is generated, and the section so far
Gather(section) ==
    [used |-> used, imports |-> imports, lines |-> section.lines, uses |-> section.uses,
     refs |-> section.refs,
     haveTypeVar |-> render.haveTypeVar, haveEnumTypeVar |-> render.haveEnumTypeVar,
     haveDateutil |-> render.haveDateutil, panic |-> "",
     declaredTypes |-> render.declaredTypes]

emitLine(g, line) == [g EXCEPT !.lines = Append(@, line)]

\* the text emitted refers to these names of other modules where Python
\* evaluates them (not in a type hint)
referenced(g, pairs) == [g EXCEPT !.refs = @ \cup pairs]

typing(names) == {<<"typing", n>> : n \in names}

\* withImport for each of the pairs; shown tells whether the returned names
\* reach the text (a type hint is dropped without typeHints)
withImports(g, pairs, shown) ==
    [g EXCEPT !.imports = @ \cup UNION {withImport(Ctx(g), p[1], p[2]).imports : p \in pairs},
              !.uses = @ \cup (IF shown THEN pairs ELSE {})]

typeHint(g, pairs) == withImports(g, pairs, features.typeHints)

typingDecl(g, type) == typeHint(g, typing({type}))

typingReturn(g, type) == typeHint(g, typing({type}))

followTargetType(t) ==
    IF transformationForType(t) # Undefined THEN transformationForType(t).targetType ELSE t

nullableFromUnion(u) ==
    IF Len(u.items) = 2 /\ u.items[1].kind = "null" THEN u.items[2]
    ELSE IF Len(u.items) = 2 /\ u.items[2].kind = "null" THEN u.items[1]
    ELSE Undefined

RECURSIVE pythonTypeImports(_)
\* the imports pythonType(t) asks for
pythonTypeImports(t) ==
    CASE followTargetType(t).kind = "any" -> typing({"Any"})
      [] followTargetType(t).kind = "array" ->
            typing({"List"}) \cup pythonTypeImports(followTargetType(t).items[1])
      [] followTargetType(t).kind = "map" ->
            typing({"Dict"}) \cup pythonTypeImports(followTargetType(t).items[1])
      [] followTargetType(t).kind = "union" ->
            IF nullableFromUnion(followTargetType(t)) # Undefined
            THEN typing({"Optional"})
                 \cup pythonTypeImports(nullableFromUnion(followTargetType(t)))
            ELSE typing({"Union"})
                 \cup UNION {pythonTypeImports(followTargetType(t).items[i]) :
                                i \in 1..Len(followTargetType(t).items)}
      [] followTargetType(t).kind = "date-time" -> {<<"datetime", "datetime">>}
      [] OTHER -> {}

RECURSIVE pythonTypePanic(_)
\* the panic of pythonType(t), "" when there is none
pythonTypePanic(t) ==
    CASE followTargetType(t).kind \in {"array", "map", "union"} ->
            IF \E i \in 1..Len(followTargetType(t).items) :
                  pythonTypePanic(followTargetType(t).items[i]) # ""
            THEN pythonTypePanic(
                    followTargetType(t).items[
                        CHOOSE i \in 1..Len(followTargetType(t).items) :
                            pythonTypePanic(followTargetType(t).items[i]) # ""])
            ELSE ""
      [] followTargetType(t).kind \in {"any", "null", "bool", "integer", "double", "string",
                                       "class", "enum", "date-time"} -> ""
      [] OTHER -> "Transformed type " \o followTargetType(t).kind \o " not supported"

pythonType(g, t, shown) ==
    IF g.panic # "" THEN g
    ELSE IF pythonTypePanic(t) # "" THEN [g EXCEPT !.panic = pythonTypePanic(t)]
    ELSE withImports(g, pythonTypeImports(t), shown)

\* the name of a class or enum: in quotes until the type is declared
namedTypeBare(g, t) == nameForNamedType(t)

namedType(g, t) ==
    IF t \in g.declaredTypes THEN nameForNamedType(t) ELSE Node("'", <<nameForNamedType(t)>>)

RECURSIVE pythonTypeText(_, _)
\* the text pythonType(t) returns
pythonTypeText(g, t) ==
    CASE followTargetType(t).kind = "any" -> Atom("Any")
      [] followTargetType(t).kind = "null" -> Atom("None")
      [] followTargetType(t).kind = "bool" -> Atom("bool")
      [] followTargetType(t).kind = "integer" -> Atom("int")
      [] followTargetType(t).kind = "double" -> Atom("float")
      [] followTargetType(t).kind = "string" -> Atom("str")
      [] followTargetType(t).kind = "array" ->
            Node("List", <<pythonTypeText(g, followTargetType(t).items[1])>>)
      [] followTargetType(t).kind \in {"class", "enum"} -> namedType(g, followTargetType(t))
      [] followTargetType(t).kind = "map" ->
            Node("Dict", <<Atom("str"), pythonTypeText(g, followTargetType(t).items[1])>>)
      [] followTargetType(t).kind = "union" ->
            IF nullableFromUnion(followTargetType(t)) # Undefined
            THEN Node("Optional",
                      <<pythonTypeText(g, nullableFromUnion(followTargetType(t)))>>)
            ELSE Node("Union",
                      [i \in 1..Len(followTargetType(t).items) |->
                          pythonTypeText(g, followTargetType(t).items[i])])
      [] followTargetType(t).kind = "date-time" -> Atom("datetime")
      [] OTHER -> Panic(pythonTypePanic(t))

\* typeHint(...sl): the text of a hint, dropped without typeHints
hinted(sl) == IF features.typeHints THEN sl ELSE <<>>

\* name: <pythonType of the property> for each of the properties
hintTexts(g, props) ==
    [i \in 1..Len(props) |->
        Node("arg", <<Atom(props[i].name)>>
                    \o hinted(<<Node(":", <<pythonTypeText(g, props[i].type)>>)>>))]

emitLines(g, lines) == IF g.panic # "" THEN g ELSE [g EXCEPT !.lines = @ \o lines]

RECURSIVE Words(_)
\* the words of a text
Words(e) == {e.op} \cup UNION {Words(e.args[i]) : i \in 1..Len(e.args)}

\* the names of other modules typeObject puts into an expression
typeObjectNames == {<<"datetime", "datetime">>, <<"typing", "List">>}

\* emitLine(..., makeValue(r.vol)) for the compilation r
emitCompiled(g, r, how) ==
    IF g.panic # "" THEN g
    ELSE IF r.panic # "" THEN [g EXCEPT !.panic = r.panic]
    ELSE [g EXCEPT !.used = r.used,
                   !.imports = r.imports,
                   !.uses = @ \cup (IF "datetime" \in Words(makeValue(r.vol))
                                    THEN {<<"datetime", "datetime">>} ELSE {}),
                   !.refs = @ \cup {p \in typeObjectNames : p[2] \in Words(makeValue(r.vol))},
                   !.lines = Append(@, Node(how, <<makeValue(r.vol)>>))]

compileFrom(g, fn, value, t, how) ==
    emitCompiled(g, recurse(fn, Ctx(g), VOL(value, Undefined), t, Undefined), how)

RECURSIVE propertyHints(_, _, _)
\* name: <pythonType of the property> for each property, in a type hint
propertyHints(g, props, shown) ==
    IF props = <<>> THEN g
    ELSE propertyHints(pythonType(g, Head(props).type, shown), Tail(props), shown)

RECURSIVE fromDictProperties(_, _)
\* name = <deserializer of the property on obj.get("jsonName")>
fromDictProperties(g, props) ==
    IF props = <<>> THEN g
    ELSE fromDictProperties(
            compileFrom(g, "deserializer", objGet(Head(props).json), Head(props).type, "="),
            Tail(props))

RECURSIVE toDictProperties(_, _)
\* result["jsonName"] = <serializer of the property on self.name>
toDictProperties(g, props) ==
    IF props = <<>> THEN g
    ELSE toDictProperties(
            compileFrom(g, "serializer", selfDot(Head(props).name), Head(props).type, "[]="),
            Tail(props))

\* PythonRenderer.emitClassMembers: def __init__
initMembers(g, t) ==
    IF features.dataClasses THEN g
    ELSE emitLine(propertyHints(g, classProperties(t.name), features.typeHints),
                  Node("def __init__", hintTexts(g, classProperties(t.name))))

\* JSONPythonRenderer.emitClassMembers: def from_dict, def to_dict
emitClassMembers(g, t) ==
    toDictProperties(
        emitLine(fromDictProperties(
                    emitLine(typingDecl(initMembers(g, t), "Any"),
                             Node("def from_dict", hinted(<<Node("->", <<namedType(g, t)>>)>>))),
                    classProperties(t.name)),
                 Atom("def to_dict")),
        classProperties(t.name))

declarationLine(g, t) ==
    IF t.kind = "class"
    THEN emitLine(g, Node("class", <<nameForNamedType(t)>>))
    ELSE emitLine(referenced(withImports(g, {<<"enum", "Enum">>}, TRUE), {<<"enum", "Enum">>}),
                  Node("class", <<nameForNamedType(t), Atom("Enum")>>))

\* declareType, after the block: the type is declared from here on
declareType(g, t) == [g EXCEPT !.declaredTypes = @ \cup {t}]

emitClass(g, t) ==
    declareType(
        emitClassMembers(
            emitLines(
                propertyHints(
                    declarationLine(
                        IF features.dataClasses
                        THEN emitLine(referenced(withImports(g, {<<"dataclasses", "dataclass">>},
                                                             TRUE),
                                                 {<<"dataclasses", "dataclass">>}),
                                      Atom("@dataclass"))
                        ELSE g,
                        t),
                    IF features.typeHints THEN classProperties(t.name) ELSE <<>>,
                    TRUE),
                IF features.typeHints THEN hintTexts(g, classProperties(t.name)) ELSE <<>>),
            t),
        t)

emitEnum(g, t) == declareType(emitLine(declarationLine(g, t), Atom("cases")), t)

RECURSIVE emitClosingCode(_, _)
\* for each top level: def <name>_from_dict(s), def <name>_to_dict(x)
emitClosingCode(g, topLevels) ==
    IF topLevels = <<>> THEN g
    ELSE emitClosingCode(
            compileFrom(
                emitLines(
                    typingReturn(
                        compileFrom(
                            emitLines(
                                typingDecl(pythonType(g, Head(topLevels), features.typeHints),
                                           "Any"),
                                <<Node("def _from_dict",
                                       hinted(<<Node("->",
                                                     <<pythonTypeText(g, Head(topLevels))>>)>>))>>),
                            "deserializer", Atom("s"), Head(topLevels), "return"),
                        "Any"),
                    <<Node("def _to_dict",
                           hinted(<<Node(":", <<pythonTypeText(g, Head(topLevels))>>)>>))>>),
                "serializer", Atom("x"), Head(topLevels), "return"),
            Tail(topLevels))

typeVar(g) == [withImports(g, typing({"TypeVar"}), FALSE) EXCEPT !.haveTypeVar = TRUE]

enumTypeVar(g) ==
    [withImports(g, typing({"TypeVar"}) \cup {<<"enum", "Enum">>}, FALSE)
        EXCEPT !.haveEnumTypeVar = TRUE]

\* def <name>(...): with the names its signature takes from typing
emitDef(g, name, hints) == emitLine(typeHint(g, typing(hints)), Node("def", <<Atom(name)>>))

emitNoneConverter(g) == emitDef(g, "from_none", {"Any"})

emitBoolConverter(g) == emitDef(g, "from_bool", {"Any"})

emitIntConverter(g) == emitDef(g, "from_int", {"Any"})

emitFromFloatConverter(g) == emitDef(g, "from_float", {"Any"})

emitToFloatConverter(g) == emitDef(g, "to_float", {"Any"})

emitStrConverter(g) == emitDef(g, "from_str", {"Any"})

emitToEnumConverter(g) == emitDef(enumTypeVar(g), "to_enum", {"Type", "Any"})

emitListConverter(g) == emitDef(typeVar(g), "from_list", {"Callable", "Any", "List"})

emitToClassConverter(g) ==
    IF features.typeHints
    THEN emitDef(referenced(typeVar(g), typing({"cast", "Any"})),
                 "to_class", {"Type", "Any", "cast"})
    ELSE emitDef(withImports(typeVar(g), typing({"Any"}), FALSE), "to_class", {})

emitDictConverter(g) == emitDef(typeVar(g), "from_dict", {"Callable", "Any", "Dict"})

emitUnionConverter(g) == emitDef(g, "from_union", {})

emitFromDatetimeConverter(g) ==
    [emitDef(referenced(typeHint(g, {<<"datetime", "datetime">>}), {<<"dateutil", "parser">>}),
             "from_datetime", {"Any"})
        EXCEPT !.haveDateutil = TRUE]

emitIsTypeConverter(g) == emitDef(typeVar(g), "is_type", {"Type", "Any"})

emitConverter(g, cf) ==
    CASE cf = CFNone -> emitNoneConverter(g)
      [] cf = CFBool -> emitBoolConverter(g)
      [] cf = CFInt -> emitIntConverter(g)
      [] cf = CFFromFloat -> emitFromFloatConverter(g)
      [] cf = CFToFloat -> emitToFloatConverter(g)
      [] cf = CFStr -> emitStrConverter(g)
      [] cf = CFToEnum -> emitToEnumConverter(g)
      [] cf = CFList -> emitListConverter(g)
      [] cf = CFToClass -> emitToClassConverter(g)
      [] cf = CFDict -> emitDictConverter(g)
      [] cf = CFUnion -> emitUnionConverter(g)
      [] cf = CFFromDatetime -> emitFromDatetimeConverter(g)
      [] cf = CFIsType -> emitIsTypeConverter(g)

RECURSIVE emitConverters(_, _)
emitConverters(g, cfs) ==
    IF cfs = <<>> THEN g ELSE emitConverters(emitConverter(g, Head(cfs)), Tail(cfs))

\* Array.from(this._deserializerFunctions), and emitConverter for each
emitSupportCode(g) == emitConverters(g, g.used)

\* the sections in the order emitSourceStructure emits the gathered source
emitGatheredOrderAsGenerated == <<"declarations", "closing", "support">>

emitGatheredOrder == <<"support", "declarations", "closing">>

RECURSIVE Mentions(_, _)
\* the type t contains the named type n
Mentions(t, n) ==
    \/ t = n
    \/ \E i \in 1..Len(t.items) : Mentions(t.items[i], n)

\* the type t contains n, or contains a class with a property that does (the
\* properties of the model's classes reach every named type in one step)
Reaches(t, n) ==
    \/ Mentions(t, n)
    \/ \E c \in {ClassA, ClassB} :
          /\ Mentions(t, c)
          /\ \E i \in 1..Len(classProperties(c.name)) :
                Mentions(classProperties(c.name)[i].type, n)

\* forEachNamedType: the classes and enums of the graph
namedTypes(topLevels) ==
    SelectSeq(<<ClassA, ClassB, EnumE>>,
              LAMBDA n : \E i \in 1..Len(topLevels) : Reaches(topLevels[i], n))

\* the orders forEachNamedType may declare them in
DeclarationOrders(topLevels) ==
    {q \in [1..Len(namedTypes(topLevels)) ->
                {namedTypes(topLevels)[i] : i \in 1..Len(namedTypes(topLevels))}] :
        Injective(q)}

TopLevels ==
    {<<t>> : t \in Types} \cup {<<ClassA, t>> : t \in Types}
    \cup {<<ClassB>>, <<Type("array", "", <<ClassB>>, Undefined), EnumE>>}
    \cup {<<UnionArrayXfT>>, <<ClassA, UnionArrayXfT>>}

Section(g) == [lines |-> g.lines, uses |-> g.uses, refs |-> g.refs]

Generated(name) ==
    IF render.gathered # <<>> /\ render.gathered[Len(render.gathered)] = name
    THEN render.gathered
    ELSE Append(render.gathered, name)

renderVars == <<vol, last, ustack, ulog, uret, ufs, features, debug, run, scope>>

\* the renderer after a section's callback has run as far as g
Gathered(g, name, next, declared) ==
    /\ UNCHANGED renderVars
    /\ IF g.panic # ""
       THEN /\ pc' = "aborted"
            /\ render' = [render EXCEPT !.panic = g.panic]
            /\ UNCHANGED <<used, imports>>
       ELSE /\ pc' = next
            /\ used' = g.used
            /\ imports' = g.imports
            /\ render' = [render EXCEPT ![name] = Section(g),
                                        !.gathered = Generated(name),
                                        !.declared = declared,
                                        !.haveTypeVar = g.haveTypeVar,
                                        !.haveEnumTypeVar = g.haveEnumTypeVar,
                                        !.haveDateutil = g.haveDateutil,
                                        !.declaredTypes = g.declaredTypes]

NextNamed == render.named[render.declared + 1]

\* forEachNamedType calls emitClass for the next class
EmitClass ==
    /\ pc = "declarations"
    /\ render.declared < Len(render.named)
    /\ NextNamed.kind = "class"
    /\ Gathered(emitClass(Gather(render.declarationLines), NextNamed),
                "declarationLines", "declarations", render.declared + 1)

\* forEachNamedType calls emitEnum for the next enum
EmitEnum ==
    /\ pc = "declarations"
    /\ render.declared < Len(render.named)
    /\ NextNamed.kind = "enum"
    /\ Gathered(emitEnum(Gather(render.declarationLines), NextNamed),
                "declarationLines", "declarations", render.declared + 1)

EmitClosingCode ==
    /\ pc = "declarations"
    /\ render.declared = Len(render.named)
    /\ Gathered(emitClosingCode(Gather(NoSection), render.topLevels),
                "closingLines", "support", render.declared)

EmitSupportCode ==
    /\ pc = "support"
    /\ Gathered(emitSupportCode(Gather(NoSection)),
                "supportLines", "comments", render.declared)

OutputSection(name, section, imported, dateutil) ==
    [section |-> name, lines |-> section.lines, uses |-> section.uses, refs |-> section.refs,
     imports |-> imported, dateutil |-> dateutil]

Emitted(section, next) ==
    /\ render' = [render EXCEPT !.output = Append(@, section)]
    /\ pc' = next
    /\ UNCHANGED renderVars

\* emitDefaultLeadingComments
EmitLeadingComments ==
    /\ pc = "comments"
    /\ Emitted(OutputSection("comments", NoSection, {}, render.haveDateutil), "imports")
    /\ UNCHANGED <<used, imports>>

\* the type variables emitImports declares after the import lines
typeVars(g) ==
    IF g.haveEnumTypeVar
    THEN referenced(typeHint(enumTypeVar(IF g.haveTypeVar THEN typeVar(g) ELSE g),
                             typing({"TypeVar"}) \cup {<<"enum", "Enum">>}),
                    IF features.typeHints
                    THEN typing({"TypeVar"}) \cup {<<"enum", "Enum">>} ELSE {})
    ELSE IF g.haveTypeVar
    THEN referenced(typeHint(typeVar(g), typing({"TypeVar"})),
                    IF features.typeHints THEN typing({"TypeVar"}) ELSE {})
    ELSE g

\* emitImports: the import lines are written from the imports as they are
\* now; the type variables come after them
EmitImports ==
    /\ pc = "imports"
    /\ Emitted(OutputSection("imports", Section(typeVars(Gather(NoSection))), imports,
                             render.haveDateutil),
               "gathered")
    /\ imports' = typeVars(Gather(NoSection)).imports
    /\ UNCHANGED used

NextGathered == emitGatheredOrder[Len(render.output) - 1]

\* emitGatheredSource, for the next of the three gathered sections
EmitGatheredSource ==
    /\ pc = "gathered"
    /\ Emitted(OutputSection(NextGathered,
                             CASE NextGathered = "support" -> render.supportLines
                               [] NextGathered = "declarations" -> render.declarationLines
                               [] NextGathered = "closing" -> render.closingLines,
                             {}, FALSE),
               IF Len(render.output) = Len(emitGatheredOrder) + 1 THEN "end" ELSE "gathered")
    /\ UNCHANGED <<used, imports>>

InitRender ==
    /\ vol = identity
    /\ used = <<>>
    /\ imports = {}
    /\ features \in Features
    /\ last = NoOp
    /\ pc = "declarations"
    /\ ufs = <<>>
    /\ ustack = <<>>
    /\ ulog = <<>>
    /\ uret = NoOutcome
    /\ debug = TRUE
    /\ run = NoRun
    /\ scope = NoScope
    /\ \E tops \in TopLevels :
          \E order \in DeclarationOrders(tops) :
             render = [NoRender EXCEPT !.topLevels = tops, !.named = order]

NextRender ==
    \/ EmitClass
    \/ EmitEnum
    \/ EmitClosingCode
    \/ EmitSupportCode
    \/ EmitLeadingComments
    \/ EmitImports
    \/ EmitGatheredSource

SpecRender == InitRender /\ [][NextRender]_vars

----------------------------------------------------------------------------
(* What a value-or-lambda computes *)

Arg == Atom("a")

\* fn applied to a, with fn in parentheses of its own
App(fn, a) == Node("call", <<Paren(fn), a>>)

\* the expression v stands for when its pending function, if any, is applied:
\* to its value if it has one, to a otherwise
Denote(v, a) ==
    IF v.value # Undefined
    THEN IF v.lambda # Undefined THEN Norm(App(v.lambda.source, v.value)) ELSE Norm(v.value)
    ELSE IF v.lambda # Undefined THEN Norm(App(v.lambda.source, a)) ELSE a

ValueVOL(e) == VOL(e, Undefined)

BeforeLast == [used |-> last.usedBefore, imports |-> last.importsBefore]

CompileOps == {"deserializer", "serializer", "transformer"}

----------------------------------------------------------------------------
(* Claims *)

\* C1: compose(input, step) with the step a function on expressions: an input
\* with a value gives a value, the step applied to the collapsed input, and no
\* lambda; an input with only a pending lambda g gives a lambda without value
\* that applies g to x and then the step; the identity gives a lambda without
\* value that applies the step to x.
C1_ComposeStepRule ==
    (last.op = "compose" /\ IsFunction(last.arg)) =>
        /\ last.input.value # Undefined =>
                /\ last.out.value # Undefined
                /\ last.out.lambda = Undefined
                /\ Norm(last.out.value) = Norm(StepApply(last.arg, Denote(last.input, Arg)))
        /\ (last.input.value = Undefined /\ last.input.lambda # Undefined) =>
                /\ last.out.value = Undefined
                /\ last.out.lambda # Undefined
                /\ Norm(App(last.out.lambda.source, Arg))
                     = Norm(StepApply(last.arg, App(last.input.lambda.source, Arg)))
        /\ last.input = identity =>
                /\ last.out.value = Undefined
                /\ last.out.lambda # Undefined
                /\ Norm(App(last.out.lambda.source, Arg)) = Norm(StepApply(last.arg, Arg))

C1_Witness ==
    /\ last.op = "compose"
    /\ IsFunction(last.arg)
    /\ last.input.value = Undefined
    /\ last.input.lambda # Undefined
    /\ last.input.lambda.needsParens
    /\ last.out.lambda # Undefined

\* C2 as stated: compiling from an input with a value yields a value and no
\* pending lambda; compiling from the identity yields a lambda and no value.
C2_Original ==
    (last.op \in CompileOps /\ last.panic = "") =>
        /\ last.input.value # Undefined =>
                (last.out.value # Undefined /\ last.out.lambda = Undefined)
        /\ last.input = identity =>
                (last.out.value = Undefined /\ last.out.lambda # Undefined)

\* C2 amended: compiling from an input with a value yields a value-or-lambda
\* with a value, which makeValue collapses into one expression that is not a
\* function (the result may still hold the last converter as pending lambda);
\* compiling from an input without value yields a result without value, which
\* makeLambda turns into one function (the result is still the identity when
\* the type or node adds no step), whatever the number of steps.
C2_Collapsing ==
    (last.op \in CompileOps /\ last.panic = "") =>
        /\ last.input.value # Undefined =>
                /\ last.out.value # Undefined
                /\ ~IsPanic(makeValue(last.out))
                /\ Norm(makeValue(last.out)).op # "lambda"
        /\ last.input.value = Undefined =>
                /\ last.out.value = Undefined
                /\ Norm(App(makeLambda(last.out).source, Arg)) = Denote(last.out, Arg)
                /\ Norm(App(makeLambda(last.out).source, Arg)).op # "lambda"

C2_Witness ==
    /\ last.op = "transformer"
    /\ last.panic = ""
    /\ last.input.value # Undefined
    /\ last.arg.consumer # Undefined
    /\ last.out.value # Undefined
    /\ last.out.lambda # Undefined

\* C3: compose(input, f) with f a value-or-lambda without value: f the
\* identity gives input; input the identity gives f; a pending lambda g and a
\* lambda h give one lambda computing h(g(x)); an input with a value gives h
\* as lambda and makeValue(input) as value.  makeValue of a value v with a
\* lambda h computes h(v), of a value alone it is v.
C3_ComposeLambdas ==
    /\ (last.op = "compose" /\ ~IsFunction(last.arg) /\ last.arg.value = Undefined) =>
            /\ last.arg = identity => last.out = last.input
            /\ last.input = identity => last.out = last.arg
            /\ (/\ last.input.value = Undefined
                /\ last.input.lambda # Undefined
                /\ last.arg.lambda # Undefined) =>
                    /\ last.out.value = Undefined
                    /\ last.out.lambda # Undefined
                    /\ Norm(App(last.out.lambda.source, Arg))
                         = Norm(App(last.arg.lambda.source, App(last.input.lambda.source, Arg)))
            /\ (last.input.value # Undefined /\ last.arg.lambda # Undefined) =>
                    /\ last.out.lambda = last.arg.lambda
                    /\ last.out.value # Undefined
                    /\ Norm(last.out.value) = Denote(last.input, Arg)
    /\ (last.op = "makeValue" /\ last.input.value # Undefined) =>
            IF last.input.lambda # Undefined
            THEN Norm(last.source) = Norm(App(last.input.lambda.source, last.input.value))
            ELSE last.source = last.input.value

C3_Witness ==
    /\ last.op = "compose"
    /\ ~IsFunction(last.arg)
    /\ last.arg.lambda # Undefined
    /\ last.input.value = Undefined
    /\ last.input.lambda # Undefined
    /\ last.input.lambda.needsParens
    /\ last.out.lambda # Undefined

----------------------------------------------------------------------------
(* Claims about from_union at run time *)

\* the call f(x) ends without raising
Succeeds(f) ==
    IF f.kind = "leaf"
    THEN f.ok
    ELSE (\E j \in 1..Len(f.subs) : f.subs[j].ok) \/ ~debug

\* the index of the first element of fs that succeeds, 0 if there is none
FirstSuccess(fs) ==
    IF \E i \in 1..Len(fs) : Succeeds(fs[i])
    THEN CHOOSE i \in 1..Len(fs) :
            Succeeds(fs[i]) /\ \A j \in 1..(i - 1) : ~Succeeds(fs[j])
    ELSE 0

\* what the branch f at index i returns when it succeeds: a converter its own
\* value, a nested from_union that of its first converter that succeeds
ResultOf(f, i) ==
    IF f.kind = "leaf" THEN <<i>>
    ELSE IF \E j \in 1..Len(f.subs) : f.subs[j].ok
    THEN <<i, FirstSuccess(f.subs)>>
    ELSE None

\* the branches of the outermost call that have been called, in order
CalledOfOutermost == SelectSeq(ulog, LAMBDA p : Len(p) = 1)

Ended == ustack = <<>> /\ pc = "run"

\* C4: from_union(fs, x) calls the functions of fs in list order, returns the
\* result of the first that does not fail and calls no branch after it.
C4_UnionTryOrder ==
    /\ \A k \in 1..Len(CalledOfOutermost) : CalledOfOutermost[k] = <<k>>
    /\ FirstSuccess(ufs) # 0 =>
            /\ \A k \in 1..Len(ulog) : ulog[k][1] <= FirstSuccess(ufs)
            /\ Ended =>
                    /\ uret.kind = "returned"
                    /\ uret.val = ResultOf(ufs[FirstSuccess(ufs)], FirstSuccess(ufs))
                    /\ Len(CalledOfOutermost) = FirstSuccess(ufs)

C4_Witness ==
    /\ uret.kind = "returned"
    /\ Len(ufs) = 3
    /\ ~Succeeds(ufs[1])
    /\ ~Succeeds(ufs[2])
    /\ Succeeds(ufs[3])
    /\ uret.val = <<3>>
    /\ Len(CalledOfOutermost) = 3

\* C5 as stated: a failing branch is swallowed and the next branch is tried;
\* the call fails exactly when every branch of fs fails on x (an empty fs
\* included); a nested from_union that fails counts as a failing branch.
C5_Original ==
    /\ Ended =>
            /\ uret.kind \in {"returned", "raised"}
            /\ uret.kind = "raised" <=> \A i \in 1..Len(ufs) : ~Succeeds(ufs[i])
    /\ \A k \in 1..Len(ustack) :
            ustack[k].at \in {"try", "call", "return"} =>
                \A j \in 1..(ustack[k].i - 1) : ~Succeeds(ustack[k].fs[j])

\* C5 with assertions enabled: the call fails exactly when every branch
\* fails, after every branch has been tried
C5_ExhaustWithAssertions ==
    debug =>
        /\ C5_Original
        /\ uret.kind = "raised" => Len(CalledOfOutermost) = Len(ufs)

\* all branches fail, assertions are disabled, and the call returns None
C5_Witness ==
    /\ Ended
    /\ ~debug
    /\ Len(ufs) = 2
    /\ \A i \in 1..Len(ufs) : ~Succeeds(ufs[i])
    /\ uret = [kind |-> "returned", val |-> None]

----------------------------------------------------------------------------
(* Claims about the compilation of transformer nodes *)

IsNode(kind) == last.op = "transformer" /\ last.arg.kind = kind

IsUsed(cf) == \E i \in 1..Len(used) : used[i] = cf

\* the context before the last operation with cf recorded as used
WithUsed(cf) == [used |-> SetAdd(last.usedBefore, cf), imports |-> last.importsBefore]

\* the consumer, if there is one, compiled on v in the context c
Continued(c, v, consumer, targetType) ==
    IF consumer = Undefined THEN Ret(c, v) ELSE transformer(c, v, consumer, targetType)

ContinuedFrom(r, consumer, targetType) ==
    IF r.panic # "" THEN r ELSE Continued(Ctx(r), r.vol, consumer, targetType)

\* the last operation ended as r does
Outcome(r) ==
    /\ last.out = r.vol
    /\ used = r.used
    /\ imports = r.imports
    /\ last.panic = r.panic

\* the result computes what the consumer computes from the expression e
ComputesAfter(e, consumer) ==
    Denote(last.out, Arg)
        = Denote(Continued(BeforeLast, ValueVOL(e), consumer, last.target).vol, Arg)

ChoiceKinds == {"DecodingChoiceTransformer", "ChoiceTransformer"}

\* the lambda of one branch, compiled on its own from the identity
BranchLambda(b) == makeLambda(transformer(BeforeLast, identity, b, last.target).vol).source

BranchLambdas ==
    [i \in 1..Len(last.arg.transformers) |-> BranchLambda(last.arg.transformers[i])]

\* C6: a choice node compiles every branch from the identity into a lambda,
\* hands from_union one lambda per branch in the order of the branch list,
\* and composes the input with that from_union step once.
C6_ChoiceBranches ==
    (last.op = "transformer" /\ last.arg.kind \in ChoiceKinds /\ last.panic = "") =>
        /\ last.out = compose(last.input, CallStep(Atom("from_union"), <<ListOf(BranchLambdas)>>))
        /\ Denote(last.out, Arg)
             = Norm(Node("call", <<Atom("from_union"), ListOf(BranchLambdas),
                                  Denote(last.input, Arg)>>))
        /\ (last.out.value # Undefined) <=> (last.input.value # Undefined)
        /\ IsUsed(CFUnion)

C6_Witness ==
    /\ last.op = "transformer"
    /\ last.arg.kind \in ChoiceKinds
    /\ last.panic = ""
    /\ Len(last.arg.transformers) = 2
    /\ BranchLambdas[1] # BranchLambdas[2]
    /\ last.input.value # Undefined
    /\ last.input.lambda # Undefined
    /\ last.out.value # Undefined

DecodeLeafKinds == {"null", "bool", "integer", "double", "string"}

PrimitiveConverter(kind) ==
    CASE kind = "null" -> CFNone
      [] kind = "bool" -> CFBool
      [] kind = "integer" -> CFInt
      [] kind = "double" -> CFFromFloat
      [] kind = "string" -> CFStr

PrimitiveName(kind) ==
    CASE kind = "null" -> "from_none"
      [] kind = "bool" -> "from_bool"
      [] kind = "integer" -> "from_int"
      [] kind = "double" -> "from_float"
      [] kind = "string" -> "from_str"

\* C7: a decode leaf of a primitive source type (one that carries no
\* transformation of its own) composes the input with the converter of that
\* type, from_none, from_bool, from_int, from_float or from_str; the consumer,
\* if any, is compiled on that result with the same target type, so that its
\* steps apply to the decoded value; without consumer the decoded value is the
\* result.
C7_DecodeLeaf ==
    (/\ IsNode("DecodingTransformer")
     /\ last.arg.sourceType.kind \in DecodeLeafKinds
     /\ transformationForType(last.arg.sourceType) = Undefined) =>
        /\ Outcome(Continued(WithUsed(PrimitiveConverter(last.arg.sourceType.kind)),
                              compose(last.input,
                                      VOL(Undefined,
                                          singleWord(Atom(PrimitiveName(last.arg.sourceType.kind))))),
                              last.arg.consumer, last.target))
        /\ IsUsed(PrimitiveConverter(last.arg.sourceType.kind))
        /\ last.panic = "" =>
                ComputesAfter(Node("call", <<Atom(PrimitiveName(last.arg.sourceType.kind)),
                                            Denote(last.input, Arg)>>),
                              last.arg.consumer)
        /\ last.arg.consumer = Undefined =>
                Denote(last.out, Arg)
                    = Node("call", <<Atom(PrimitiveName(last.arg.sourceType.kind)),
                                    Denote(last.input, Arg)>>)

C7_Witness ==
    /\ IsNode("DecodingTransformer")
    /\ last.arg.sourceType.kind = "double"
    /\ last.arg.consumer # Undefined
    /\ last.arg.consumer.kind = "StringifyTransformer"
    /\ last.input.value = Undefined
    /\ last.input.lambda # Undefined
    /\ last.panic = ""
    /\ IsUsed(CFFromFloat)

HasDescriptor(t) ==
    t.kind \in {"null", "bool", "integer", "double", "string", "array", "class", "map",
                "enum", "date-time"}

Descriptor(t) ==
    CASE t.kind = "null" -> "type(None)"
      [] t.kind = "bool" -> "bool"
      [] t.kind = "integer" -> "int"
      [] t.kind = "double" -> "float"
      [] t.kind = "string" -> "str"
      [] t.kind = "array" -> "List"
      [] t.kind = "map" -> "dict"
      [] t.kind = "date-time" -> "datetime"
      [] t.kind \in {"class", "enum"} -> t.name

\* the context after is_type and the descriptor of t have been asked for
AfterIsType(t) ==
    [used |-> SetAdd(last.usedBefore, CFIsType),
     imports |-> IF t.kind = "date-time"
                 THEN last.importsBefore \cup {<<"datetime", "datetime">>}
                 ELSE last.importsBefore]

\* C8: a union member match node composes the input with is_type(descriptor
\* of the member type, .) and compiles its inner transformer, if any, on the
\* checked value, so that the check runs before every step of the inner
\* transformer; a member type without descriptor stops the compilation.
C8_MemberMatch ==
    IsNode("UnionMemberMatchTransformer") =>
        IF HasDescriptor(last.arg.memberType)
        THEN /\ Outcome(Continued(AfterIsType(last.arg.memberType),
                                   compose(last.input,
                                           CallStep(Atom("is_type"),
                                                    <<Atom(Descriptor(last.arg.memberType))>>)),
                                   last.arg.transformer, last.target))
             /\ IsUsed(CFIsType)
             /\ last.panic = "" =>
                    ComputesAfter(Node("call", <<Atom("is_type"),
                                                 Atom(Descriptor(last.arg.memberType)),
                                                 Denote(last.input, Arg)>>),
                                  last.arg.transformer)
        ELSE last.panic = "No type object for " \o last.arg.memberType.kind

C8_Witness ==
    /\ IsNode("UnionMemberMatchTransformer")
    /\ last.arg.memberType.kind = "date-time"
    /\ last.arg.transformer # Undefined
    /\ last.arg.transformer.kind = "StringifyTransformer"
    /\ last.input.value # Undefined
    /\ last.panic = ""
    /\ <<"datetime", "datetime">> \in imports

\* the node of the last operation without its consumer
WithoutConsumer == [last.arg EXCEPT !.consumer = Undefined]

\* C9: compiling a union instantiation node returns the input as it is, the
\* same value and the same lambda, and leaves the used converters and the
\* imports as they were; as the consumer of a decode node it adds nothing to
\* what the decode node yields alone.
C9_UnionInstantiationIdentity ==
    /\ IsNode("UnionInstantiationTransformer") =>
            /\ last.out = last.input
            /\ used = last.usedBefore
            /\ imports = last.importsBefore
            /\ last.panic = ""
    /\ (/\ IsNode("DecodingTransformer")
        /\ last.arg.consumer # Undefined
        /\ last.arg.consumer.kind = "UnionInstantiationTransformer") =>
            Outcome(transformer(BeforeLast, last.input, WithoutConsumer, last.target))

C9_Witness ==
    /\ IsNode("UnionInstantiationTransformer")
    /\ last.input.value # Undefined
    /\ last.input.lambda # Undefined
    /\ last.out = last.input
    /\ used # <<>>
    /\ imports # {}

\* the kind a parse-string node parses into
ParsedKind ==
    IF last.arg.consumer = Undefined THEN last.target.kind ELSE last.arg.consumer.sourceType.kind

ParsedType ==
    IF last.arg.consumer = Undefined THEN last.target ELSE last.arg.consumer.sourceType

\* C10: a parse-string node parses into the source type of its consumer, or
\* into the target type when it has no consumer: an integer by int(.), an
\* enum by the deserializer of that enum type, a date-time by from_datetime;
\* the consumer, if any, is compiled on the parsed value.
C10_ParseString ==
    IsNode("ParseStringTransformer") =>
        /\ ParsedKind = "integer" =>
                /\ Outcome(Continued(BeforeLast,
                                      compose(last.input, CallStep(Atom("int"), <<>>)),
                                      last.arg.consumer, last.target))
                /\ last.panic = "" =>
                        ComputesAfter(Node("call", <<Atom("int"), Denote(last.input, Arg)>>),
                                      last.arg.consumer)
        /\ ParsedKind = "enum" =>
                /\ Outcome(ContinuedFrom(deserializer(BeforeLast, last.input, ParsedType),
                                          last.arg.consumer, last.target))
                /\ last.panic = "" =>
                        ComputesAfter(Node("call", <<Atom(ParsedType.name),
                                                    Denote(last.input, Arg)>>),
                                      last.arg.consumer)
        /\ ParsedKind = "date-time" =>
                /\ Outcome(Continued(WithUsed(CFFromDatetime),
                                      compose(last.input,
                                              VOL(Undefined, singleWord(Atom("from_datetime")))),
                                      last.arg.consumer, last.target))
                /\ IsUsed(CFFromDatetime)
                /\ last.panic = "" =>
                        ComputesAfter(Node("call", <<Atom("from_datetime"),
                                                    Denote(last.input, Arg)>>),
                                      last.arg.consumer)

C10_Witness ==
    /\ IsNode("ParseStringTransformer")
    /\ last.arg.consumer # Undefined
    /\ last.arg.consumer.kind = "StringifyTransformer"
    /\ ParsedKind = "date-time"
    /\ last.target.kind = "integer"
    /\ last.input.value # Undefined
    /\ last.panic = ""
    /\ IsUsed(CFFromDatetime)

\* C11, the dispatch: a stringify node dispatches on the kind of its own
\* source type: an integer is composed with str(.), an enum with the
\* serializer of that enum type, a date-time with .isoformat(); the consumer,
\* if any, is compiled on the result.
C11_StringifyDispatch ==
    IsNode("StringifyTransformer") =>
        /\ last.arg.sourceType.kind = "integer" =>
                /\ Outcome(Continued(BeforeLast,
                                      compose(last.input, CallStep(Atom("str"), <<>>)),
                                      last.arg.consumer, last.target))
                /\ last.panic = "" =>
                        ComputesAfter(Node("call", <<Atom("str"), Denote(last.input, Arg)>>),
                                      last.arg.consumer)
        /\ last.arg.sourceType.kind = "enum" =>
                /\ Outcome(ContinuedFrom(serializer(BeforeLast, last.input, last.arg.sourceType),
                                          last.arg.consumer, last.target))
                /\ last.panic = "" =>
                        ComputesAfter(Node("call", <<Atom("to_enum"),
                                                    Atom(last.arg.sourceType.name),
                                                    Denote(last.input, Arg)>>),
                                      last.arg.consumer)
        /\ last.arg.sourceType.kind = "date-time" =>
                /\ Outcome(Continued(BeforeLast,
                                      compose(last.input, PostfixStep(".isoformat()")),
                                      last.arg.consumer, last.target))
                /\ last.panic = "" =>
                        ComputesAfter(Node(".isoformat()", <<Denote(last.input, Arg)>>),
                                      last.arg.consumer)

C11_DispatchWitness ==
    /\ IsNode("StringifyTransformer")
    /\ last.arg.sourceType.kind = "date-time"
    /\ last.arg.consumer # Undefined
    /\ last.arg.consumer.kind = "EncodingTransformer"
    /\ last.input.value = Undefined
    /\ last.input.lambda # Undefined
    /\ last.panic = ""

----------------------------------------------------------------------------
(* Claims about the emitted code at run time *)

\* C11, the inverse as stated: stringifying the value obtained by parsing a
\* string, for each of the kinds integer, enum and date-time, yields that
\* string.
C11_Original ==
    (pc = "stringified" /\ run.input.op = "str") => run.out = run.input

\* C11, what does hold: stringifying never fails on a parsed value, it gives
\* a string that parses to the same value, and for an enum it gives the
\* string that was parsed.
C11_StringifyAfterParse ==
    (pc = "stringified" /\ run.input.op = "str") =>
        /\ run.out.op = "str"
        /\ Eval(makeValue(transformer(EmptyCtx, VOL(Atom("s"), Undefined),
                                      ParseString(Undefined), run.type).vol),
                run.out, run.out) = run.obj
        /\ run.type.kind = "enum" => run.out = run.input

\* an integer string with a leading zero comes back without it
C11_Witness ==
    /\ pc = "stringified"
    /\ run.type.kind = "integer"
    /\ run.input = VStr("007")
    /\ run.obj = VInt("7")
    /\ run.out = VStr("7")

RECURSIVE PyEq(_, _)
\* Python's == on generic values: numbers by their value, the rest by parts
PyEq(a, b) ==
    IF a.op \in {"int", "float"} /\ b.op \in {"int", "float"}
    THEN a.args[1].op = b.args[1].op
    ELSE /\ a.op = b.op
         /\ Len(a.args) = Len(b.args)
         /\ \A i \in 1..Len(a.args) : PyEq(a.args[i], b.args[i])

RECURSIVE Respells(_)
\* the type holds a string that is parsed: a date-time, an integer-string
Respells(t) ==
    \/ t.kind = "date-time"
    \/ t.xf # Undefined
    \/ \E i \in 1..Len(t.items) : Respells(t.items[i])
    \/ t.kind = "class" /\ \E i \in 1..Len(classProperties(t.name)) :
                               Respells(classProperties(t.name)[i].type)

\* C12 as stated: for a type without unions and a generic value of its
\* shape, the serializer applied to the result of the deserializer returns a
\* value equal to the generic value.
C12_Original ==
    /\ (pc = "deserialized" /\ Matches(run.type, run.input)) => ~Raised(run.obj)
    /\ (pc = "serialized" /\ Matches(run.type, run.input)) => PyEq(run.out, run.input)

\* C12, what does hold: deserializing a value of the type's shape does not
\* fail, serializing the result does not fail and gives a value of the same
\* shape that deserializes to the same result; it is equal to the generic
\* value when the type holds no date-time and no integer-string.
C12_RoundTripUpToSpelling ==
    /\ (pc = "deserialized" /\ Matches(run.type, run.input)) => ~Raised(run.obj)
    /\ (pc = "serialized" /\ Matches(run.type, run.input)) =>
            /\ ~Raised(run.out)
            /\ Matches(run.type, run.out)
            /\ Eval(makeValue(deserializer(EmptyCtx, VOL(Atom("s"), Undefined), run.type).vol),
                    run.out, run.out) = run.obj
            /\ ~Respells(run.type) => PyEq(run.out, run.input)

\* a date-time written with Z comes back written with +00:00
C12_Witness ==
    /\ pc = "serialized"
    /\ run.type.kind = "date-time"
    /\ run.input = VStr(DateZ)
    /\ run.obj = VDatetime(DateIso)
    /\ run.out = VStr(DateIso)

\* the argument has the runtime shape the converter decodes
HasShape(name, v) ==
    CASE name = "from_none" -> v = VNone
      [] name = "from_bool" -> v.op = "bool"
      [] name = "from_int" -> v.op = "int"
      [] name = "from_float" -> v.op \in {"int", "float"}
      [] name = "from_str" -> v.op = "str"
      [] name = "from_datetime" -> v.op = "str" /\ DateOfString(v.args[1].op) # ""

\* C13 as stated: each primitive decode converter fails on an argument of
\* another shape, a boolean included for from_int and from_float, and
\* otherwise returns its argument as it is (from_datetime the datetime the
\* string denotes), not coerced to another runtime type.
C13_Original ==
    pc = "called" =>
        IF HasShape(run.op, run.input)
        THEN IF run.op = "from_datetime"
             THEN run.out.op = "datetime"
             ELSE run.out = run.input
        ELSE Raised(run.out)

\* C13, what does hold: with assertions enabled every converter fails on an
\* argument of another shape, from_int and from_float on a boolean too;
\* from_none, from_bool, from_int and from_str return the argument itself,
\* from_float returns it as a float, from_datetime the parsed datetime.
\* from_datetime fails on a mismatch with assertions disabled as well.
C13_WithAssertions ==
    pc = "called" =>
        /\ debug =>
              IF HasShape(run.op, run.input)
              THEN CASE run.op = "from_datetime" -> run.out.op = "datetime"
                     [] run.op = "from_float" ->
                            run.out.op = "float" /\ PyEq(run.out, run.input)
                     [] OTHER -> run.out = run.input
              ELSE Raised(run.out)
        /\ (run.op = "from_datetime" /\ ~HasShape(run.op, run.input)) => Raised(run.out)

\* with assertions disabled from_float turns a string into a float
C13_Witness ==
    /\ pc = "called"
    /\ ~debug
    /\ run.op = "from_float"
    /\ run.input = VStr("7")
    /\ run.out = VFloat("7")

\* with assertions enabled from_float turns an integer into a float
C13_CoercionWitness ==
    /\ pc = "called"
    /\ debug
    /\ run.op = "from_float"
    /\ run.input = VInt("7")
    /\ run.out = VFloat("7")

----------------------------------------------------------------------------
(* Claims about aborted compilations *)

ParsedKinds == {"integer", "enum", "date-time"}

RECURSIVE Unsupported(_, _, _, _)
\* compiling node (a type for deserializer and serializer, a transformer node
\* for transformer) meets something the claim lists; withMatch adds a union
\* member match node whose member type has no type object
Unsupported(fn, node, targetType, withMatch) ==
    IF fn # "transformer"
    THEN IF node.xf # Undefined
         THEN IF fn = "deserializer"
              THEN Unsupported("transformer", node.xf.transformer, node.xf.targetType, withMatch)
              ELSE Unsupported("transformer", node.xf.reverse.transformer,
                               node.xf.reverse.targetType, withMatch)
         ELSE CASE node.kind \in {"array", "map", "union"} ->
                      \E i \in 1..Len(node.items) :
                          Unsupported(fn, node.items[i], Undefined, withMatch)
                [] node.kind \in {"any", "null", "bool", "integer", "double", "string",
                                  "class", "enum", "date-time"} -> FALSE
                [] OTHER -> TRUE
    ELSE CASE node.kind \in ChoiceKinds ->
                  \E i \in 1..Len(node.transformers) :
                      Unsupported(fn, node.transformers[i], targetType, withMatch)
           [] node.kind = "DecodingTransformer" ->
                  \/ Unsupported("deserializer", node.sourceType, Undefined, withMatch)
                  \/ /\ node.consumer # Undefined
                     /\ Unsupported(fn, node.consumer, targetType, withMatch)
           [] node.kind = "EncodingTransformer" ->
                  Unsupported("serializer", node.sourceType, Undefined, withMatch)
           [] node.kind = "UnionInstantiationTransformer" -> FALSE
           [] node.kind = "UnionMemberMatchTransformer" ->
                  \/ withMatch /\ ~HasDescriptor(node.memberType)
                  \/ /\ node.transformer # Undefined
                     /\ Unsupported(fn, node.transformer, targetType, withMatch)
           [] node.kind = "ParseStringTransformer" ->
                  IF node.consumer = Undefined
                  THEN \/ targetType.kind \notin ParsedKinds
                       \/ Unsupported("deserializer", targetType, Undefined, withMatch)
                  ELSE \/ node.consumer.sourceType.kind \notin ParsedKinds
                       \/ Unsupported("deserializer", node.consumer.sourceType, Undefined, withMatch)
                       \/ Unsupported(fn, node.consumer, targetType, withMatch)
           [] node.kind = "StringifyTransformer" ->
                  \/ node.sourceType.kind \notin ParsedKinds
                  \/ Unsupported("serializer", node.sourceType, Undefined, withMatch)
                  \/ /\ node.consumer # Undefined
                     /\ Unsupported(fn, node.consumer, targetType, withMatch)
           [] OTHER -> TRUE

\* C14 as stated: a compilation aborts, and yields no value-or-lambda,
\* exactly when it meets a transformer node of no known kind, a parse-string
\* node whose immediate target kind is not integer, enum or date-time, a
\* stringify node whose source kind is none of these, or a transformed-string
\* type other than date-time without transformation.
C14_Original ==
    last.op \in CompileOps =>
        (last.panic # "") <=> Unsupported(last.op, last.arg, last.target, FALSE)

\* C14 amended: a compilation aborts exactly in the four cases of the claim
\* and in a fifth, a union member match node whose member type has no type
\* object; an aborted compilation yields no value-or-lambda.
C14_Aborts ==
    last.op \in CompileOps =>
        /\ (last.panic # "") <=> Unsupported(last.op, last.arg, last.target, TRUE)
        /\ last.panic # "" => last.out = PanicVOL(last.panic)
        /\ last.panic = "" => ~IsPanic(last.out.value)

C14_Witness ==
    /\ IsNode("UnionMemberMatchTransformer")
    /\ last.arg.memberType.kind = "any"
    /\ last.arg.transformer # Undefined
    /\ last.panic = "No type object for any"
    /\ last.out = PanicVOL(last.panic)

----------------------------------------------------------------------------
(* Claims about names *)

NameAt(i) == scope.names[i]

Plain == nameStyle(scope.role, features.version, scope.label)

\* C15: the names assigned in one namespace are pairwise distinct, and none is
\* a forbidden word of the namespace: no type name is in forbiddenTypeNames
\* (T and EnumT among them), no property name is in forbiddenPropertyNames.
C15_UniqueAndNotForbidden ==
    pc = "names" =>
        /\ \A i, j \in 1..Len(scope.names) : i # j => NameAt(i) # NameAt(j)
        /\ {<<"T">>, <<"E", "n", "u", "m", "T">>} \subseteq forbiddenTypeNames
        /\ \A i \in 1..Len(scope.names) :
              /\ scope.role = "type" => NameAt(i) \notin forbiddenTypeNames
              /\ scope.role = "property" => NameAt(i) \notin forbiddenPropertyNames

\* the second type is labelled like the first, whose label styles to T
C15_Witness ==
    /\ pc = "names"
    /\ scope.role = "type"
    /\ Len(scope.names) = 2
    /\ Plain = <<"T">>
    /\ NameAt(1) = <<"T", "2">>
    /\ NameAt(2) = <<"T", "3">>

C15_PropertyWitness ==
    /\ pc = "names"
    /\ scope.role = "property"
    /\ Len(scope.names) = 1
    /\ Plain = <<"i", "s">>
    /\ NameAt(1) = <<"i", "s", "_", "2">>

IsStart(version, c) == IF version = 2 THEN isStartCharacter2(c) ELSE isStartCharacter3(c)

IsPart(version, c) == IF version = 2 THEN isPartCharacter2(c) ELSE isPartCharacter3(c)

\* C16: in both versions and both styles every identifier is not empty, its
\* first character satisfies the identifier-start rule of the selected
\* version, and each of its characters the identifier-part rule.
C16_StartAndPartLegal ==
    pc = "names" =>
        \A i \in 1..Len(scope.names) :
            /\ NameAt(i) # <<>>
            /\ IsStart(features.version, NameAt(i)[1])
            /\ \A k \in 1..Len(NameAt(i)) : IsPart(features.version, NameAt(i)[k])

\* version 2, snake style, a label that begins with a digit
C16_Witness ==
    /\ pc = "names"
    /\ features.version = 2
    /\ scope.role = "property"
    /\ scope.label = <<"3", "U+00AA">>
    /\ Len(scope.names) = 1
    /\ NameAt(1) = <<"t", "h", "e", "_", "3">>

\* version 3, class style, a label that begins with a disallowed character
C16_ClassWitness ==
    /\ pc = "names"
    /\ features.version = 3
    /\ scope.role = "type"
    /\ scope.label = <<"-", "U+00AA">>
    /\ Len(scope.names) = 1
    /\ NameAt(1) = <<"U+00AA">>

----------------------------------------------------------------------------
(* Claims about the generated file *)

ConverterNames == {convName(cf) : cf \in ConverterFunction}

\* the converters the lines refer to
ConvertersIn(lines) ==
    ConverterNames \cap UNION {Words(lines[i]) : i \in 1..Len(lines)}

\* the names of the functions the lines define, in order
DefinedIn(lines) ==
    [i \in 1..Len(SelectSeq(lines, LAMBDA l : l.op = "def")) |->
        SelectSeq(lines, LAMBDA l : l.op = "def")[i].args[1].op]

IsPrefix(p, q) == Len(p) <= Len(q) /\ \A i \in 1..Len(p) : p[i] = q[i]

SupportGenerated == pc \in {"comments", "imports", "gathered", "end"}

Referenced ==
    ConvertersIn(render.declarationLines.lines) \cup ConvertersIn(render.closingLines.lines)

SupportExact ==
    SupportGenerated =>
        /\ render.declared = Len(render.named)
        /\ render.gathered[Len(render.gathered)] = "supportLines"
        /\ render.gathered[Len(render.gathered) - 1] = "closingLines"
        /\ Injective(DefinedIn(render.supportLines.lines))
        /\ {DefinedIn(render.supportLines.lines)[i] :
               i \in 1..Len(DefinedIn(render.supportLines.lines))} = Referenced
        /\ {convName(used[i]) : i \in 1..Len(used)} = Referenced

\* C17: the used converters only grow; the support code is generated after
\* every declaration and every top-level converter, and defines exactly the
\* converters the class bodies and top-level converters refer to, each once.
C17_SupportCodeExact == [][IsPrefix(used, used')]_vars /\ []SupportExact

C17_Witness ==
    /\ pc = "end"
    /\ render.topLevels = <<ClassA>>
    /\ DefinedIn(render.supportLines.lines) = <<"from_int", "from_datetime", "to_class">>
    /\ Referenced = {"from_int", "from_datetime", "to_class"}

GenerationRank(name) ==
    CASE name = "declarationLines" -> 1
      [] name = "closingLines" -> 2
      [] name = "supportLines" -> 3

FinalOrder == <<"comments", "imports", "support", "declarations", "closing">>

SectionLines(name) ==
    CASE name = "support" -> render.supportLines.lines
      [] name = "declarations" -> render.declarationLines.lines
      [] name = "closing" -> render.closingLines.lines
      [] OTHER -> <<>>

\* C18: the sections are generated in the order declarations, closing code,
\* support code; the output has the order leading comments, imports, support
\* code, declarations, closing code; the import lines hold every name a
\* section of the output obtained from withImport.
C18_SectionOrder ==
    pc \in {"declarations", "support", "comments", "imports", "gathered", "end"} =>
        /\ \A i, j \in 1..Len(render.gathered) :
              i < j => GenerationRank(render.gathered[i]) < GenerationRank(render.gathered[j])
        /\ render.output # <<>> => SupportGenerated
        /\ Len(render.output) <= Len(FinalOrder)
        /\ pc = "end" => Len(render.output) = Len(FinalOrder)
        /\ \A i \in 1..Len(render.output) :
              /\ render.output[i].section = FinalOrder[i]
              /\ i > 2 => render.output[i].lines = SectionLines(FinalOrder[i])
              /\ i >= 2 => render.output[i].uses \subseteq render.output[2].imports
        /\ Len(render.output) >= 2 =>
              /\ render.output[2].imports = imports
              /\ "from_datetime" \in Referenced => render.output[2].dateutil

C18_Witness ==
    /\ pc = "end"
    /\ render.gathered = <<"declarationLines", "closingLines", "supportLines">>
    /\ render.output[3].lines # <<>>
    /\ render.output[4].uses # {}
    /\ render.output[5].uses # {}
    /\ <<"enum", "Enum">> \in render.output[4].uses

NoGather ==
    [used |-> <<>>, imports |-> {}, lines |-> <<>>, uses |-> {}, refs |-> {},
     haveTypeVar |-> FALSE,
     haveEnumTypeVar |-> FALSE, haveDateutil |-> FALSE, panic |-> "",
     declaredTypes |-> {}]

\* the name of the function emitConverter(cf) defines
DefinedName(cf) == DefinedIn(emitConverter(NoGather, cf).lines)[1]

\* C20: for each of the 13 converter functions the name conv puts into the
\* expressions is the name of the function emitConverter defines, and the 13
\* names are pairwise distinct.
C20_ConverterNames ==
    /\ Cardinality(ConverterFunction) = 13
    /\ \A cf \in ConverterFunction :
          /\ conv(EmptyCtx, cf).source = Atom(DefinedName(cf))
          /\ \A other \in ConverterFunction : DefinedName(other) = DefinedName(cf) => other = cf
    /\ SupportGenerated =>
          DefinedIn(render.supportLines.lines) = [i \in 1..Len(used) |-> convName(used[i])]

C20_Witness ==
    /\ pc = "end"
    /\ \E i \in 1..Len(used) : used[i] = CFFromDatetime
    /\ \E i \in 1..Len(used) : used[i] = CFUnion
    /\ \E i \in 1..Len(used) : used[i] = CFIsType
    /\ DefinedIn(render.supportLines.lines) = [i \in 1..Len(used) |-> convName(used[i])]

----------------------------------------------------------------------------
(* Claims about the assertions of compose and makeValue *)

\* the text of a value-or-lambda holds the mark of a failed assertion
Asserts(v) ==
    \/ "panic" \in Words(v.value)
    \/ v.lambda # Undefined /\ "panic" \in Words(v.lambda.source)

\* C19: a compilation that does not abort on an unsupported kind fails no
\* assertion of compose ("Cannot compose into a value"), and from an input
\* with a value it yields an output with a value, so that makeValue of the
\* output fails no assertion either.
C19_NoAssertionFails ==
    (last.op \in CompileOps \cup {"convFn"} /\ last.panic = "" /\ ~Asserts(last.input)) =>
        /\ ~Asserts(last.out)
        /\ last.input.value # Undefined =>
              /\ last.out.value # Undefined
              /\ ~IsPanic(makeValue(last.out))

\* a choice between branches compiled from an input with a value and a
\* pending converter: the output is the value makeValue accepts
C19_Witness ==
    /\ IsNode("DecodingChoiceTransformer")
    /\ Len(last.arg.transformers) = 2
    /\ last.panic = ""
    /\ last.input.value # Undefined
    /\ last.input.lambda # Undefined
    /\ last.out.value # Undefined
    /\ ~IsPanic(makeValue(last.out))

\* the entry points: no line of a class body or top-level converter holds
\* the mark of a failed assertion
C19_RenderedLines ==
    pc \in {"declarations", "support", "comments", "imports", "gathered", "end"} =>
        \A name \in {"declarationLines", "closingLines"} :
            \A i \in 1..Len(render[name].lines) : "panic" \notin Words(render[name].lines[i])

----------------------------------------------------------------------------
(* Claims about forward references *)

NamedNames == {ClassA.name, ClassB.name, EnumE.name}

\* the lines that carry type hints
HintOps == {"arg", "def __init__", "def from_dict", "def _from_dict", "def _to_dict"}

RECURSIVE References(_)
\* the references to named types in a text, each with whether it is quoted
References(e) ==
    IF e.op = "'" THEN {<<e.args[1].op, TRUE>>}
    ELSE (IF e.args = <<>> /\ e.op \in NamedNames THEN {<<e.op, FALSE>>} ELSE {})
         \cup UNION {References(e.args[i]) : i \in 1..Len(e.args)}

ReferencesIn(line) == IF line.op \in HintOps THEN References(line) ELSE {}

\* the lines that open the declaration block of the type named n
DeclaredAt(lines, n) ==
    {i \in 1..Len(lines) : lines[i].op = "class" /\ lines[i].args[1].op = n}

\* line j comes after the whole block of n: another block has been opened
\* between the declaration of n and line j
AfterBlock(lines, n, j) ==
    \E d \in DeclaredAt(lines, n) :
        \E k \in (d + 1)..j : lines[k].op = "class"

\* the block of the class opened at line d is whole: it runs to def to_dict
WholeBlock(lines, d) ==
    \E k \in (d + 1)..Len(lines) :
        /\ lines[k].op = "def to_dict"
        /\ \A m \in (d + 1)..k : lines[m].op # "class"

DeclaredAfterBlock ==
    /\ render.declaredTypes = {render.named[i] : i \in 1..render.declared}
    /\ \A i \in 1..Len(render.named) :
          /\ render.named[i] \in render.declaredTypes
                <=> DeclaredAt(render.declarationLines.lines, render.named[i].name) # {}
          /\ render.named[i].kind = "class" =>
                \A d \in DeclaredAt(render.declarationLines.lines, render.named[i].name) :
                    WholeBlock(render.declarationLines.lines, d)

QuotedUntilDeclared ==
    /\ \A j \in 1..Len(render.declarationLines.lines) :
          \A r \in ReferencesIn(render.declarationLines.lines[j]) :
              r[2] = ~AfterBlock(render.declarationLines.lines, r[1], j)
    /\ \A j \in 1..Len(render.closingLines.lines) :
          \A r \in ReferencesIn(render.closingLines.lines[j]) :
              /\ ~r[2]
              /\ DeclaredAt(render.declarationLines.lines, r[1]) # {}

\* C21: a type enters declaredTypes only once its whole declaration block is
\* emitted and never leaves it; a reference to a class or enum in a type hint
\* is quoted exactly when it is emitted before or inside the block of the type
\* (a class referring to itself included) and bare when emitted after it.
C21_ForwardReferences ==
    /\ [][render.declaredTypes \subseteq render'.declaredTypes]_vars
    /\ [](DeclaredAfterBlock /\ QuotedUntilDeclared)

\* class B declared after class A and before the enum: inside its block A is
\* bare, B itself and the enum are quoted; the top-level converter names B bare
C21_Witness ==
    /\ pc = "end"
    /\ features.typeHints
    /\ render.named = <<ClassA, ClassB, EnumE>>
    /\ render.declaredTypes = {ClassA, ClassB, EnumE}
    /\ \E j \in 1..Len(render.declarationLines.lines) :
          {<<"A", FALSE>>, <<"B", TRUE>>, <<"E", TRUE>>}
             \subseteq ReferencesIn(render.declarationLines.lines[j])
    /\ \E j \in 1..Len(render.closingLines.lines) :
          <<"B", FALSE>> \in ReferencesIn(render.closingLines.lines[j])

----------------------------------------------------------------------------
(* Claims about the completeness of the imports *)

ImportsEmitted == Len(render.output) >= 2

\* the names of other modules the output refers to outside type hints: in
\* the three gathered sections and in the type variables after the imports
ReferencedNames ==
    render.declarationLines.refs \cup render.closingLines.refs
    \cup render.supportLines.refs \cup render.output[2].refs

\* the import lines bring the name in
Imported(p) ==
    IF p = <<"dateutil", "parser">> THEN render.output[2].dateutil
    ELSE p \in render.output[2].imports

\* what emitImports asks for after the import lines was registered before
RegisteredBefore == render.output[2].imports = imports

\* C22: once the import lines are emitted, every name of another module that
\* the output refers to outside type hints has an import line, and the
\* requests emitImports makes after the import lines add nothing.
C22_Original ==
    ImportsEmitted =>
        /\ \A p \in ReferencedNames : Imported(p)
        /\ RegisteredBefore

\* C22 as the code has it: the same for every name but the List that
\* typeObject hands to is_type, which is imported only when a type hint
\* asked for it, and so never without typeHints.
C22_AllButList ==
    ImportsEmitted =>
        /\ \A p \in ReferencedNames \ {<<"typing", "List">>} : Imported(p)
        /\ RegisteredBefore
        /\ <<"typing", "List">> \in ReferencedNames =>
              (Imported(<<"typing", "List">>) <=> features.typeHints)

\* the top level is the union with an array member, without type hints: the
\* serializer tests is_type(List, x) and no line imports List
C22_Witness ==
    /\ pc = "end"
    /\ ~features.typeHints
    /\ render.topLevels = <<UnionArrayXfT>>
    /\ <<"typing", "List">> \in render.closingLines.refs
    /\ \E j \in 1..Len(render.closingLines.lines) :
          {"is_type", "List"} \subseteq Words(render.closingLines.lines[j])
    /\ ~Imported(<<"typing", "List">>)
    /\ Imported(<<"datetime", "datetime">>)
    /\ Imported(<<"dateutil", "parser">>)

====
